---------------------------- MODULE Spec2Model ----------------------------
(***************************************************************************)
(* Model of the ts-morph refactoring tools: the rename-file-system-entry   *)
(* pipeline (plan, discover, move, rewrite, persist), the path resolver    *)
(* and the dry-run / commit handling of the tool handlers.                 *)
(*                                                                         *)
(* A path is a sequence of segments ("/d/a.ts" is <<"d", "a.ts">>), a      *)
(* module specifier is the sequence of its "/"-separated segments          *)
(* ("./d/a" is <<".", "d", "a">>, ".." is <<"..">>, "@/d/a" is             *)
(* <<"@", "d", "a">>).  Segments contain no "/", so two specifier texts    *)
(* are equal exactly when their segment sequences are.                     *)
(***************************************************************************)
EXTENDS Integers, Sequences, FiniteSets, TLC

VARIABLES
    disk,              \* storage: one record [path, edges, syms] per file
    proj,              \* the in-memory Project of the running call
    pc,                \* position of the running tool call
    tool,              \* which tool is running
    renames,           \* argument: the PathMapping batch
    dryRun,            \* argument: dryRun
    target,            \* argument of the other tools: the file they act on
    ops,               \* renameOperations returned by prepareRenames
    decls,             \* allDeclarationsToUpdate returned by discovery
    changedFilePaths,  \* changedFilePaths of the running call
    errorKind,         \* the error thrown by the running call, "" if none
    moves,             \* number of sourceFile.move() calls made by the call
    saveCalled,        \* whether the call executed its save step
    startDisk,         \* storage as it was when the call started
    result,            \* result returned by the last completed call
    dryReport,         \* last report of a dry-run rename: [renames, disk, files]
    persisted,         \* paths written to storage by the running call
    runs,              \* number of tool calls started so far
    throws,            \* the declarations [file, edge] whose setModuleSpecifier throws
    counts,            \* updatedCount and skippedCount of updateModuleSpecifiers
    origin,            \* storage before the rename that the running call undoes
    tsconfigOk,        \* whether a Project can be loaded from tsconfigPath
    deadline,          \* "" or the stage in which the armed timer elapsed
    aborted,           \* controller.signal.aborted of the running rename call
    signal             \* the caller's signal of a direct call: [abortAt, polled, late, stage]

vars == <<disk, proj, pc, tool, renames, dryRun, target, ops, decls,
          changedFilePaths, errorKind, moves, saveCalled, startDisk, result,
          dryReport, persisted, runs, throws, counts, origin, tsconfigOk,
          deadline, aborted, signal>>

-----------------------------------------------------------------------------
(* Bounds of the model *)

MaxRenames == 2
MaxRuns == 2
MaxSetFailures == 1
MaxTimedRuns == 1
MaxWritten == 1
MaxAbortAt == 24

-----------------------------------------------------------------------------
(* Segments: node:path's extname / basename on one segment *)

TsSegs == {"a.ts", "m.ts", "n.ts", "index.ts"}

ExtName(seg) == IF seg \in TsSegs THEN ".ts" ELSE ""

StripExt(seg) ==
    CASE seg = "a.ts" -> "a"
      [] seg = "m.ts" -> "m"
      [] seg = "n.ts" -> "n"
      [] seg = "index.ts" -> "index"
      [] OTHER -> seg

AddTs(seg) ==
    CASE seg = "a" -> "a.ts"
      [] seg = "m" -> "m.ts"
      [] seg = "n" -> "n.ts"
      [] seg = "index" -> "index.ts"
      [] OTHER -> "?"

StartsWithDot(seg) == seg \in {".", "..", ".h"}

HasDot(seg) == StartsWithDot(seg) \/ seg \in TsSegs

Last(s) == s[Len(s)]

Front(s) == SubSeq(s, 1, Len(s) - 1)

Range(s) == {s[i] : i \in 1..Len(s)}

dirname(p) == Front(p)

RECURSIVE Normalize(_, _)
\* node:path normalisation of base joined with the segments of rest
Normalize(base, rest) ==
    IF rest = <<>> THEN base
    ELSE LET h == Head(rest) IN
         IF h = "." THEN Normalize(base, Tail(rest))
         ELSE IF h = ".." THEN
             Normalize(IF base = <<>> THEN <<>> ELSE Front(base), Tail(rest))
         ELSE Normalize(Append(base, h), Tail(rest))

RECURSIVE CommonLen(_, _)
CommonLen(a, b) ==
    IF a = <<>> \/ b = <<>> \/ Head(a) # Head(b) THEN 0
    ELSE 1 + CommonLen(Tail(a), Tail(b))

\* path.relative(from, to) for absolute normalised paths
pathRelative(from, to) ==
    LET k == CommonLen(from, to) IN
    [i \in 1..(Len(from) - k) |-> ".."] \o SubSeq(to, k + 1, Len(to))

IsPrefix(a, b) == Len(a) <= Len(b) /\ SubSeq(b, 1, Len(a)) = a


-----------------------------------------------------------------------------
(* Path Resolver: calculate-relative-path.ts *)

DEFAULT_EXTENSIONS_TO_REMOVE ==
    {".ts", ".tsx", ".js", ".jsx", ".json", ".mjs", ".cjs"}

PRESERVE_EXTENSIONS == {".js", ".jsx", ".json", ".mjs", ".cjs"}

IndexNames ==
    {"index", "index.ts", "index.tsx", "index.js", "index.jsx", "index.json"}

\* /^(\.\.?(\/\.\.)*)\/index(\.(ts|tsx|js|jsx|json))?$/
IndexMatch(formatted) ==
    /\ Len(formatted) >= 2
    /\ Last(formatted) \in IndexNames
    /\ formatted[1] \in {".", ".."}
    /\ \A i \in 2..(Len(formatted) - 1) : formatted[i] = ".."

\* the same computation that never strips the extension
calculateRelativePath_KeepExt(fromPath, toPath, simplifyIndex, removeExtensions) ==
    LET relative == pathRelative(dirname(fromPath), toPath)
        formatted == IF relative # <<>> /\ StartsWithDot(relative[1])
                     THEN relative ELSE <<".">> \o relative
    IN  IF simplifyIndex /\ removeExtensions /\ IndexMatch(formatted)
        THEN Front(formatted)
        ELSE formatted

calculateRelativePath(fromPath, toPath, simplifyIndex, removeExtensions) ==
    LET relative == pathRelative(dirname(fromPath), toPath)
        formatted == IF relative # <<>> /\ StartsWithDot(relative[1])
                     THEN relative ELSE <<".">> \o relative
        originalExt == ExtName(Last(formatted))
    IN  IF simplifyIndex /\ removeExtensions /\ IndexMatch(formatted)
        THEN Front(formatted)
        ELSE IF removeExtensions /\ originalExt \in DEFAULT_EXTENSIONS_TO_REMOVE
        THEN Append(Front(formatted), StripExt(Last(formatted)))
        ELSE formatted

-----------------------------------------------------------------------------
(* The semantic front end: module resolution and path aliases *)

NoPath == <<>>

AliasPrefix == "@"

\* checkIsPathAlias with tsconfig paths {"@/*": ["./*"]}
checkIsPathAlias(specifier) ==
    Len(specifier) >= 2 /\ specifier[1] = AliasPrefix

\* the file a normalised candidate path names: the file itself, the file
\* with a source extension added, or the index file of the directory
LookupModule(candidate, tryFile, paths) ==
    IF tryFile /\ candidate # <<>> /\ candidate \in paths THEN candidate
    ELSE IF tryFile /\ candidate # <<>>
            /\ Append(Front(candidate), AddTs(Last(candidate))) \in paths
         THEN Append(Front(candidate), AddTs(Last(candidate)))
    ELSE IF Append(candidate, "index.ts") \in paths
         THEN Append(candidate, "index.ts")
    ELSE NoPath

\* declaration.getModuleSpecifierSourceFile()?.getFilePath()
ResolveSpecifier(ownerPath, specifier, paths) ==
    IF specifier = <<>> THEN NoPath
    ELSE IF checkIsPathAlias(specifier)
         THEN LookupModule(Normalize(<<>>, Tail(specifier)), TRUE, paths)
    ELSE IF specifier[1] \in {".", ".."}
         THEN LookupModule(Normalize(dirname(ownerPath), specifier),
                           Last(specifier) \notin {".", ".."}, paths)
    ELSE NoPath


-----------------------------------------------------------------------------
(* The Project: source files by index, each with its path, its import/export *)
(* edges [spec, name] and the names it declares                            *)

FileIds(p) == 1..Len(p)

FilePaths(p) == {p[i].path : i \in FileIds(p)}

\* project.getSourceFile(path): the file's index, 0 if there is none
getSourceFile(p, path) ==
    IF \E i \in FileIds(p) : p[i].path = path
    THEN CHOOSE i \in FileIds(p) : p[i].path = path
    ELSE 0

\* project.getDirectory(path) is defined
getDirectory(p, path) ==
    \E i \in FileIds(p) : IsPrefix(path, dirname(p[i].path))

\* initializeProject: every file of storage, loaded and saved
initializeProject(d) ==
    [i \in 1..Len(d) |->
        [path |-> d[i].path, edges |-> d[i].edges, syms |-> d[i].syms,
         saved |-> TRUE]]

\* the same query without the isSaved filter
getChangedFiles_AllFiles(p) == FileIds(p)

\* getChangedFiles: the source files that are not saved
getChangedFiles(p) == {i \in FileIds(p) : ~p[i].saved}

ChangedPaths(p) == {p[i].path : i \in getChangedFiles(p)}

\* project.save(): every unsaved file is written at its current path and
\* the path it was moved away from is deleted
saveProjectChanges(p, d) ==
    [i \in 1..Len(p) |->
        IF i <= Len(d) /\ p[i].saved THEN d[i]
        ELSE [path |-> p[i].path, edges |-> p[i].edges, syms |-> p[i].syms]]

\* the paths project.save() writes to
writtenPaths(p) == {p[i].path : i \in {j \in FileIds(p) : p[j].saved = FALSE}}

MarkSaved(p) == [i \in FileIds(p) |-> [p[i] EXCEPT !.saved = TRUE]]

-----------------------------------------------------------------------------
(* Rename Operation Planner: prepare-renames.ts *)

ErrDuplicateTarget == "DuplicateTarget"
ErrDestinationExists == "DestinationExists"
ErrSourceNotFound == "SourceNotFound"
ErrMove == "MoveFailed"

\* the same check looking at source files only
checkDestinationExists_FilesOnly(p, pathToCheck) ==
    getSourceFile(p, pathToCheck) # 0

\* checkDestinationExists throws
checkDestinationExists(p, pathToCheck) ==
    getSourceFile(p, pathToCheck) # 0 \/ getDirectory(p, pathToCheck)

RECURSIVE FilesAtDepth(_, _, _, _)
\* the files of the project below dir that lie depth levels below it
FilesAtDepth(p, dir, depth, i) ==
    IF i > Len(p) THEN <<>>
    ELSE (IF IsPrefix(dir, dirname(p[i].path))
             /\ Len(p[i].path) = Len(dir) + depth
          THEN <<i>> ELSE <<>>) \o FilesAtDepth(p, dir, depth, i + 1)

RECURSIVE DescendantsFrom(_, _, _)
DescendantsFrom(p, dir, depth) ==
    IF \A i \in FileIds(p) : Len(p[i].path) < Len(dir) + depth THEN <<>>
    ELSE FilesAtDepth(p, dir, depth, 1) \o DescendantsFrom(p, dir, depth + 1)

\* directory.getDescendantSourceFiles(): the directory's own files first
getDescendantSourceFiles(p, dir) == DescendantsFrom(p, dir, 1)

\* the operations of one directory mapping (lines 68-81)
ExpandDirectory(p, oldPath, newPath) ==
    LET filesInDir == getDescendantSourceFiles(p, oldPath) IN
    [k \in 1..Len(filesInDir) |->
        [sourceFile |-> filesInDir[k],
         oldPath |-> p[filesInDir[k]].path,
         newPath |-> Normalize(newPath,
                               pathRelative(oldPath, p[filesInDir[k]].path))]]

RECURSIVE prepareLoop_NoDuplicateCheck(_, _, _, _, _)
\* the same loop that never records a newPath in uniqueNewPaths
prepareLoop_NoDuplicateCheck(p, rs, i, uniqueNewPaths, acc) ==
    IF i > Len(rs) THEN [err |-> "", ops |-> acc]
    ELSE IF rs[i].newPath \in uniqueNewPaths
         THEN [err |-> ErrDuplicateTarget, ops |-> <<>>]
    ELSE IF checkDestinationExists(p, rs[i].newPath)
         THEN [err |-> ErrDestinationExists, ops |-> <<>>]
    ELSE IF getSourceFile(p, rs[i].oldPath) # 0
         THEN prepareLoop_NoDuplicateCheck(p, rs, i + 1, uniqueNewPaths,
                  Append(acc, [sourceFile |-> getSourceFile(p, rs[i].oldPath),
                               oldPath |-> rs[i].oldPath,
                               newPath |-> rs[i].newPath]))
    ELSE IF getDirectory(p, rs[i].oldPath)
         THEN prepareLoop_NoDuplicateCheck(p, rs, i + 1, uniqueNewPaths,
                  acc \o ExpandDirectory(p, rs[i].oldPath, rs[i].newPath))
    ELSE [err |-> ErrSourceNotFound, ops |-> <<>>]

RECURSIVE prepareLoop(_, _, _, _, _)
\* the for loop of prepareRenames over the mappings, lines 38-85
prepareLoop(p, rs, i, uniqueNewPaths, acc) ==
    IF i > Len(rs) THEN [err |-> "", ops |-> acc]
    ELSE IF rs[i].newPath \in uniqueNewPaths
         THEN [err |-> ErrDuplicateTarget, ops |-> <<>>]
    ELSE IF checkDestinationExists(p, rs[i].newPath)
         THEN [err |-> ErrDestinationExists, ops |-> <<>>]
    ELSE IF getSourceFile(p, rs[i].oldPath) # 0
         THEN prepareLoop(p, rs, i + 1, uniqueNewPaths \cup {rs[i].newPath},
                  Append(acc, [sourceFile |-> getSourceFile(p, rs[i].oldPath),
                               oldPath |-> rs[i].oldPath,
                               newPath |-> rs[i].newPath]))
    ELSE IF getDirectory(p, rs[i].oldPath)
         THEN prepareLoop(p, rs, i + 1, uniqueNewPaths \cup {rs[i].newPath},
                  acc \o ExpandDirectory(p, rs[i].oldPath, rs[i].newPath))
    ELSE [err |-> ErrSourceNotFound, ops |-> <<>>]

prepareRenames(p, rs) == prepareLoop(p, rs, 1, {}, <<>>)

-----------------------------------------------------------------------------
(* Reference Discovery *)

RECURSIVE EdgesFrom(_, _, _)
\* every import/export declaration of the project, in file and source order
EdgesFrom(p, i, k) ==
    IF i > Len(p) THEN <<>>
    ELSE IF k > Len(p[i].edges) THEN EdgesFrom(p, i + 1, 1)
    ELSE <<[file |-> i, edge |-> k]>> \o EdgesFrom(p, i, k + 1)

AllEdges(p) == EdgesFrom(p, 1, 1)

EdgeTarget(p, e) ==
    ResolveSpecifier(p[e.file].path, p[e.file].edges[e.edge].spec, FilePaths(p))

\* the declarations that reference the file of one rename operation
findDeclarationsForRenameOperation(p, op) ==
    SelectSeq(AllEdges(p), LAMBDA e : EdgeTarget(p, e) = p[op.sourceFile].path)

RECURSIVE collectDeclarations_NoMapKey(_, _, _, _)
\* the same loop collecting into a list, without the map keyed by file and
\* position
collectDeclarations_NoMapKey(p, op, found, acc) ==
    IF found = <<>> THEN acc
    ELSE LET e == Head(found)
             importPath == EdgeTarget(p, e)
         IN  IF p[e.file].edges[e.edge].spec = <<>> \/ op.oldPath # importPath
             THEN collectDeclarations_NoMapKey(p, op, Tail(found), acc)
             ELSE collectDeclarations_NoMapKey(p, op, Tail(found),
                      Append(acc,
                          [file |-> e.file, edge |-> e.edge,
                           resolvedPath |-> op.oldPath,
                           referencingFilePath |-> p[e.file].path,
                           originalSpecifierText |-> p[e.file].edges[e.edge].spec,
                           wasPathAlias |->
                               checkIsPathAlias(p[e.file].edges[e.edge].spec)]))

RECURSIVE collectDeclarations(_, _, _, _)
\* lines 52-84: the inner loop over the declarations found for one operation
collectDeclarations(p, op, found, acc) ==
    IF found = <<>> THEN acc
    ELSE LET e == Head(found)
             seen == \E j \in 1..Len(acc) :
                         acc[j].file = e.file /\ acc[j].edge = e.edge
             importPath == EdgeTarget(p, e)
         IN  IF seen \/ p[e.file].edges[e.edge].spec = <<>> \/ op.oldPath # importPath
             THEN collectDeclarations(p, op, Tail(found), acc)
             ELSE collectDeclarations(p, op, Tail(found),
                      Append(acc,
                          [file |-> e.file, edge |-> e.edge,
                           resolvedPath |-> op.oldPath,
                           referencingFilePath |-> p[e.file].path,
                           originalSpecifierText |-> p[e.file].edges[e.edge].spec,
                           wasPathAlias |->
                               checkIsPathAlias(p[e.file].edges[e.edge].spec)]))

RECURSIVE discoverLoop(_, _, _, _)
discoverLoop(p, os, i, acc) ==
    IF i > Len(os) THEN acc
    ELSE discoverLoop(p, os, i + 1,
             collectDeclarations(p, os[i],
                 findDeclarationsForRenameOperation(p, os[i]), acc))

findAllDeclarationsToUpdate(p, os) == discoverLoop(p, os, 1, <<>>)

-----------------------------------------------------------------------------
(* Moving the files: move-file-system-entries.ts *)

RECURSIVE moveLoop(_, _, _, _)
\* sourceFile.move(moveTarget) resolves moveTarget against the directory the
\* file is in now and throws when another file of the project is there
moveLoop(p, os, i, n) ==
    IF i > Len(os) THEN [proj |-> p, err |-> "", moves |-> n]
    ELSE LET f == os[i].sourceFile
             moveTarget == pathRelative(dirname(os[i].oldPath), os[i].newPath)
             dest == Normalize(dirname(p[f].path), moveTarget)
         IN  IF dest = p[f].path THEN moveLoop(p, os, i + 1, n + 1)
             ELSE IF dest \in FilePaths(p)
                  THEN [proj |-> p, err |-> ErrMove, moves |-> n]
             ELSE moveLoop([p EXCEPT ![f].path = dest, ![f].saved = FALSE],
                           os, i + 1, n + 1)

moveFileSystemEntries(p, os) == moveLoop(p, os, 1, 0)

-----------------------------------------------------------------------------
(* Module Specifier Rewriter: update-module-specifiers.ts *)

\* renameOperations.find((op) => op.oldPath === oldFilePath)?.newPath
findNewPath(oldFilePath, os) ==
    IF \E i \in 1..Len(os) : os[i].oldPath = oldFilePath
    THEN LET first == CHOOSE i \in 1..Len(os) :
                 /\ os[i].oldPath = oldFilePath
                 /\ \A j \in 1..(i - 1) : os[j].oldPath # oldFilePath
         IN  os[first].newPath
    ELSE NoPath

\* /(\/|\/[^/.]+)$/.test(text) || !path.extname(text)
wasIndexSimplified(originalSpecifierText) ==
    \/ Len(originalSpecifierText) >= 2 /\ ~HasDot(Last(originalSpecifierText))
    \/ ExtName(Last(originalSpecifierText)) = ""

\* the same computation that keeps the text of an aliased specifier
newSpecifierFor_KeepAlias(d, os) ==
    IF d.wasPathAlias THEN d.originalSpecifierText
    ELSE calculateRelativePath(
            IF findNewPath(d.referencingFilePath, os) # NoPath
            THEN findNewPath(d.referencingFilePath, os)
            ELSE d.referencingFilePath,
            findNewPath(d.resolvedPath, os),
            wasIndexSimplified(d.originalSpecifierText),
            ExtName(Last(d.originalSpecifierText)) \notin PRESERVE_EXTENSIONS)

\* the specifier computed for one declaration (lines 49-113)
newSpecifierFor(d, os) ==
    LET newReferencingFilePath ==
            IF findNewPath(d.referencingFilePath, os) # NoPath
            THEN findNewPath(d.referencingFilePath, os)
            ELSE d.referencingFilePath
        newResolvedPath == findNewPath(d.resolvedPath, os)
    IN  calculateRelativePath(newReferencingFilePath, newResolvedPath,
            wasIndexSimplified(d.originalSpecifierText),
            ExtName(Last(d.originalSpecifierText)) \notin PRESERVE_EXTENSIONS)

RECURSIVE rewriteLoop(_, _, _, _, _, _)
\* lines 31-133: a declaration whose target has no new path is skipped, and
\* so is one whose setModuleSpecifier throws (failing holds those); the loop
\* goes on with the next declaration in both cases
rewriteLoop(p, ds, os, failing, i, c) ==
    IF i > Len(ds) THEN [proj |-> p, updated |-> c.updated, skipped |-> c.skipped]
    ELSE IF \/ findNewPath(ds[i].resolvedPath, os) = NoPath
            \/ [file |-> ds[i].file, edge |-> ds[i].edge] \in failing
         THEN rewriteLoop(p, ds, os, failing, i + 1,
                          [c EXCEPT !.skipped = c.skipped + 1])
    ELSE rewriteLoop(
             [p EXCEPT ![ds[i].file].edges[ds[i].edge].spec = newSpecifierFor(ds[i], os),
                       ![ds[i].file].saved = FALSE],
             ds, os, failing, i + 1, [c EXCEPT !.updated = c.updated + 1])

IsFailing(d, failing) == [file |-> d.file, edge |-> d.edge] \in failing

\* the same loop without the try/catch: the first throwing setModuleSpecifier
\* ends it
updateModuleSpecifiers_StopAtThrow(p, ds, os, failing) ==
    LET bad == {i \in 1..Len(ds) : IsFailing(ds[i], failing)}
        firstBad == IF bad = {} THEN Len(ds) + 1
                    ELSE CHOOSE i \in bad : \A j \in bad : i <= j
        done == rewriteLoop(p, SubSeq(ds, 1, firstBad - 1), os, {}, 1,
                            [updated |-> 0, skipped |-> 0])
    IN  [proj |-> done.proj, updated |-> done.updated,
         skipped |-> Len(ds) - done.updated]

updateModuleSpecifiers(p, ds, os, failing) ==
    rewriteLoop(p, ds, os, failing, 1, [updated |-> 0, skipped |-> 0])


-----------------------------------------------------------------------------
(* The other refactorings, as far as their handlers' dry-run / commit      *)
(* handling needs them                                                     *)

ErrFileNotFound == "FileNotFound"
ErrNotAnIdentifier == "NotAnIdentifier"
ErrSymbolNameMismatch == "SymbolNameMismatch"
ErrSymbolNotFound == "SymbolNotFound"

\* identifierNode.rename(newName): the declaration and every import of it
renameIdentifier(p, f, oldName, newName) ==
    [i \in FileIds(p) |->
        LET hit(k) == /\ p[i].edges[k].name = oldName
                      /\ EdgeTarget(p, [file |-> i, edge |-> k]) = p[f].path
            touched == i = f \/ \E k \in 1..Len(p[i].edges) : hit(k)
        IN  [path |-> p[i].path,
             edges |-> [k \in 1..Len(p[i].edges) |->
                          IF hit(k) THEN [p[i].edges[k] EXCEPT !.name = newName]
                          ELSE p[i].edges[k]],
             syms |-> IF i = f THEN (p[i].syms \ {oldName}) \cup {newName}
                      ELSE p[i].syms,
             saved |-> p[i].saved /\ ~touched]]

\* renameSymbol up to getChangedFiles: findIdentifierNode, validateSymbol, rename
renameSymbol(p, t) ==
    LET f == getSourceFile(p, t.path) IN
    IF f = 0 THEN [err |-> ErrFileNotFound, proj |-> p]
    ELSE IF t.ident \notin p[f].syms THEN [err |-> ErrNotAnIdentifier, proj |-> p]
    ELSE IF t.ident # t.symbolName THEN [err |-> ErrSymbolNameMismatch, proj |-> p]
    ELSE [err |-> "", proj |-> renameIdentifier(p, f, t.ident, t.newName)]

\* Declarations are named by strings. A declaration without an export
\* modifier and the same declaration with one are two strings with one name.
declName(s) ==
    CASE s = "export u" -> "u"
      [] s = "export k" -> "k"
      [] OTHER -> s

IsExportedDecl(s) == s \in {"f", "g", "v", "h", "export u", "export k"}

IsDefaultExport(s) == s = "h"

\* the declaration with an export modifier added
addExport(s) ==
    CASE s = "u" -> "export u"
      [] s = "k" -> "export k"
      [] OTHER -> s

\* the names a declaration's body references
Uses(n) ==
    CASE n = "f" -> {"k", "u", "v"}
      [] n = "g" -> {"u"}
      [] OTHER -> {}

\* the order in which imports of dependencies are written
DepOrder == <<"k", "u", "v">>

ErrUnsupportedDefaultExport == "UnsupportedDefaultExport"
ErrRewire == "RewireFailed"

MoveToNewFile == "moveToNewFile"
ImportFromOriginal == "importFromOriginal"
AddExport == "addExport"

\* the declaration of file o named name, "" when there is none
findDeclaration(p, o, name) ==
    IF \E s \in p[o].syms : declName(s) = name
    THEN CHOOSE s \in p[o].syms : declName(s) = name
    ELSE ""

\* the declarations of file o that the body of D references
localDependencies(p, o, D) ==
    {s \in p[o].syms \ {D} : declName(s) \in Uses(declName(D))}

\* the same rule without the test for other users
classifyDependency_MoveUnexported(p, o, D, d) ==
    IF IsExportedDecl(d) THEN ImportFromOriginal ELSE MoveToNewFile

\* the classification of dependency d of D
classifyDependency(p, o, D, d) ==
    IF IsExportedDecl(d) THEN ImportFromOriginal
    ELSE IF \A s \in p[o].syms \ {D, d} : declName(d) \notin Uses(declName(s))
         THEN MoveToNewFile
    ELSE AddExport

\* the same operation without the check for a default export
moveSymbolToFile_MoveDefaultExport(p, t) ==
    LET o == getSourceFile(p, t.path)
        q == IF getSourceFile(p, t.dest) # 0 THEN p
             ELSE Append(p, [path |-> t.dest, edges |-> <<>>, syms |-> {},
                             saved |-> FALSE])
        d == getSourceFile(q, t.dest)
        D == findDeclaration(p, o, t.symbolName)
    IN  IF o = 0 THEN [err |-> ErrFileNotFound, proj |-> p]
        ELSE IF D = "" THEN [err |-> ErrSymbolNotFound, proj |-> p]
        ELSE [err |-> "", proj |->
            [i \in FileIds(q) |->
                [path |-> q[i].path, edges |-> q[i].edges,
                 syms |-> IF i = o /\ i # d THEN q[i].syms \ {D}
                          ELSE IF i = d THEN q[i].syms \cup {D}
                          ELSE q[i].syms,
                 saved |-> q[i].saved /\ i \notin {o, d}]]]

\* moveSymbolToFile: validation, classification of the local dependencies,
\* the declaration and its moveToNewFile dependencies leave the original file
\* for the target file (created if absent), the target imports the other
\* dependencies from the original file, and every import of the declaration
\* is rewired; a consumer whose specifier cannot be set fails the move
moveSymbolToFile(p, t) ==
    LET o == getSourceFile(p, t.path)
        q == IF getSourceFile(p, t.dest) # 0 THEN p
             ELSE Append(p, [path |-> t.dest, edges |-> <<>>, syms |-> {},
                             saved |-> FALSE])
        d == getSourceFile(q, t.dest)
        D == findDeclaration(p, o, t.symbolName)
        deps == localDependencies(p, o, D)
        class(x) == classifyDependency(p, o, D, x)
        moved == {D} \cup {x \in deps : class(x) = MoveToNewFile}
        kept == {x \in deps : class(x) # MoveToNewFile}
        back == SelectSeq(DepOrder, LAMBDA n : \E x \in kept : declName(x) = n)
        hit(i, k) == /\ q[i].edges[k].name = t.symbolName
                     /\ EdgeTarget(q, [file |-> i, edge |-> k]) = q[o].path
        fails(i, k) == hit(i, k) /\ [file |-> i, edge |-> k] \in throws
        failed == \E i \in FileIds(q) : \E k \in 1..Len(q[i].edges) : fails(i, k)
    IN  IF o = 0 THEN [err |-> ErrFileNotFound, proj |-> p]
        ELSE IF D = "" THEN [err |-> ErrSymbolNotFound, proj |-> p]
        ELSE IF IsDefaultExport(D)
             THEN [err |-> ErrUnsupportedDefaultExport, proj |-> p]
        ELSE IF o = d THEN [err |-> "", proj |-> p]
        ELSE [err |-> IF failed THEN ErrRewire ELSE "", proj |->
            [i \in FileIds(q) |->
                LET touched == i \in {o, d}
                               \/ \E k \in 1..Len(q[i].edges) :
                                     hit(i, k) /\ ~fails(i, k)
                    rewired == [k \in 1..Len(q[i].edges) |->
                                  IF hit(i, k) /\ ~fails(i, k)
                                  THEN [q[i].edges[k] EXCEPT !.spec =
                                           calculateRelativePath(q[i].path, t.dest,
                                                                 TRUE, TRUE)]
                                  ELSE q[i].edges[k]]
                IN  [path |-> q[i].path,
                     edges |-> IF i = d
                               THEN SelectSeq(rewired, LAMBDA e :
                                        ~(e.name = t.symbolName
                                          /\ ResolveSpecifier(q[i].path, e.spec,
                                                 FilePaths(q)) = t.dest))
                                    \o [n \in 1..Len(back) |->
                                          [spec |-> calculateRelativePath(
                                                       q[d].path, q[o].path,
                                                       TRUE, TRUE),
                                           name |-> back[n]]]
                               ELSE rewired,
                     syms |-> IF i = o
                              THEN {IF class(x) = AddExport THEN addExport(x) ELSE x :
                                       x \in kept}
                                   \cup (q[i].syms \ (moved \cup kept))
                              ELSE IF i = d THEN q[i].syms \cup moved
                              ELSE q[i].syms,
                     saved |-> q[i].saved /\ ~touched]]]

\* the same operation marking every file in scope as changed
removePathAlias_TouchInScope(p, t) ==
    [i \in FileIds(p) |->
        LET inScope == IsPrefix(t.path, p[i].path)
            hit(k) == /\ inScope
                      /\ checkIsPathAlias(p[i].edges[k].spec)
                      /\ EdgeTarget(p, [file |-> i, edge |-> k]) # NoPath
        IN  [path |-> p[i].path,
             edges |-> [k \in 1..Len(p[i].edges) |->
                          IF hit(k)
                          THEN [p[i].edges[k] EXCEPT !.spec =
                                   calculateRelativePath(p[i].path,
                                       EdgeTarget(p, [file |-> i, edge |-> k]),
                                       TRUE, TRUE)]
                          ELSE p[i].edges[k]],
             syms |-> p[i].syms,
             saved |-> p[i].saved /\ ~(inScope /\ Len(p[i].edges) > 0)]]

\* removePathAlias: every aliased specifier of the files at or below the
\* target path is replaced by the relative path to the module it resolves to
removePathAlias(p, t) ==
    [i \in FileIds(p) |->
        LET inScope == IsPrefix(t.path, p[i].path)
            hit(k) == /\ inScope
                      /\ checkIsPathAlias(p[i].edges[k].spec)
                      /\ EdgeTarget(p, [file |-> i, edge |-> k]) # NoPath
        IN  [path |-> p[i].path,
             edges |-> [k \in 1..Len(p[i].edges) |->
                          IF hit(k)
                          THEN [p[i].edges[k] EXCEPT !.spec =
                                   calculateRelativePath(p[i].path,
                                       EdgeTarget(p, [file |-> i, edge |-> k]),
                                       TRUE, TRUE)]
                          ELSE p[i].edges[k]],
             syms |-> p[i].syms,
             saved |-> p[i].saved /\ ~\E k \in 1..Len(p[i].edges) : hit(k)]]


-----------------------------------------------------------------------------
(* Initial projects and the arguments the tools are called with *)

E(spec, name) == [spec |-> spec, name |-> name]

F(path, edges, syms) == [path |-> path, edges |-> edges, syms |-> syms]

\* /m.ts imports "./a"; /e/n.ts imports "../a" and "@/a"
Fixture1 ==
    << F(<<"m.ts">>, <<E(<<".", "a">>, "f")>>, {}),
       F(<<"a.ts">>, <<>>, {"f", "g", "h", "k", "u", "v"}),
       F(<<"e", "n.ts">>, <<E(<<"..", "a">>, "f"), E(<<"@", "a">>, "g")>>, {}) >>

\* a directory with an index file, imported as "./d" and "."
Fixture2 ==
    << F(<<"m.ts">>, <<E(<<".", "d">>, "f"), E(<<".", "d", "a">>, "g")>>, {}),
       F(<<"d", "index.ts">>, <<E(<<".", "a">>, "g")>>, {"f", "u"}),
       F(<<"d", "a.ts">>, <<E(<<".">>, "f")>>, {"g"}) >>

\* a nested importer of the root index file: "../.." and "../../index.ts"
Fixture3 ==
    << F(<<"d", "e", "m.ts">>,
         <<E(<<"..", "..">>, "f"), E(<<"..", "..", "index.ts">>, "g")>>, {}),
       F(<<"index.ts">>, <<>>, {"f", "g"}) >>

Fixtures == {Fixture1, Fixture2, Fixture3}

MissingPath == <<"x">>

DirsOf(d) ==
    UNION {{SubSeq(d[i].path, 1, k) : k \in 1..(Len(d[i].path) - 1)} :
           i \in 1..Len(d)}

OldChoices(d) == FilePaths(d) \cup DirsOf(d) \cup {MissingPath}

NewChoices ==
    { <<"n.ts">>, <<"index.ts">>, <<"e", "a.ts">>, <<".h", "a.ts">>, <<"e">> }

Mappings(d) == [oldPath : OldChoices(d), newPath : NewChoices]

Batches(d) == UNION {[1..n -> Mappings(d)] : n \in 1..MaxRenames}

Names == {"f", "g"}

SymbolArgs(d) ==
    [path : FilePaths(d) \cup {MissingPath}, ident : Names,
     symbolName : Names, newName : {"h"}, dest : {NoPath}]

MoveArgs(d) ==
    [path : FilePaths(d) \cup {MissingPath}, ident : {""},
     symbolName : Names \cup {"h"}, newName : {""}, dest : {<<"n.ts">>, <<"m.ts">>}]

AliasArgs(d) ==
    [path : FilePaths(d) \cup DirsOf(d) \cup {<<>>}, ident : {""},
     symbolName : {""}, newName : {""}, dest : {NoPath}]

\* the declarations of storage d, and the choices of those whose
\* setModuleSpecifier throws
EdgeIds(d) ==
    UNION {{[file |-> i, edge |-> k] : k \in 1..Len(d[i].edges)} : i \in 1..Len(d)}

ThrowChoices(d) == {x \in SUBSET EdgeIds(d) : Cardinality(x) <= MaxSetFailures}

NoOrigin == [set |-> FALSE, disk |-> <<>>]

\* no signal was passed, or the one passed is never aborted
NoSignal == [abortAt |-> 0, polled |-> 0, late |-> 0, stage |-> ""]

NoTarget ==
    [path |-> NoPath, ident |-> "", symbolName |-> "", newName |-> "",
     dest |-> NoPath]

NoResult ==
    [tool |-> "", isError |-> FALSE, kind |-> "", files |-> {}, dryRun |-> FALSE,
     text |-> <<>>, thrown |-> FALSE]

NoReport == [set |-> FALSE, disk |-> <<>>, files |-> {}]

ToolRename == "rename_filesystem_entry"
ToolRenameSymbol == "rename_symbol_by_tsmorph"
ToolMoveSymbol == "move_symbol_to_file"
ToolRemoveAlias == "remove_path_alias_by_tsmorph"
ToolFindReferences == "find_references_by_tsmorph"

\* the names registerTsMorphTools registers on the server
registeredTools ==
    {ToolRenameSymbol, ToolRename, ToolFindReferences, ToolRemoveAlias,
     ToolMoveSymbol}

\* the tool names of the README
DocumentedTools ==
    {"rename_symbol_by_tsmorph", "rename_filesystem_entry_by_tsmorph",
     "find_references_by_tsmorph", "remove_path_alias_by_tsmorph",
     "move_symbol_to_file_by_tsmorph"}

\* a call by a name that no tool was registered under
ErrToolNotFound == "ToolNotFound"

-----------------------------------------------------------------------------
(* Failures, the timer, and what the handlers report *)

ErrLoad == "ProjectLoadFailed"
ErrTimeout == "TimedOut"
ErrPersistence == "PersistenceFailure"

\* controller.abort() without a reason: the signal's reason is an AbortError
ErrAborted == "Aborted"

\* the stages of a rename call during which its timer is armed
TimedStages == {"plan", "discover", "move", "rewrite", "persist", "saving"}

\* the name property of the error object thrown for each failure: the abort
\* reason is a TimeoutError, every other failure a plain Error
errorName(kind) ==
    IF kind = ErrTimeout THEN "TimeoutError"
    ELSE IF kind = ErrAborted THEN "AbortError"
    ELSE "Error"

\* the class of the error that leaves renameFileSystemEntry: its catch block
\* rethrows an error named AbortError and replaces any other by a new Error.
\* A failure to load the project is thrown by the handler itself
thrownByRename(kind) ==
    IF kind = ErrLoad THEN errorName(kind)
    ELSE IF errorName(kind) = "AbortError" THEN "AbortError"
    ELSE "Error"

\* the rename handler's message, as its distinguishing tokens
renameText(kind, dr) ==
    IF kind = "" THEN <<IF dr THEN "RenameDryRun" ELSE "RenameDone">>
    ELSE IF thrownByRename(kind) = "TimeoutError" THEN <<"Error:", "TimedOut">>
    ELSE IF thrownByRename(kind) = "AbortError" THEN <<"Error:", "Cancelled">>
    ELSE <<"Error:", "RenameFailed", kind>>

\* the single-step handlers' messages
toolText(name, kind, dr) ==
    IF kind = "" THEN <<IF dr THEN "DryRun" ELSE "Done">>
    ELSE CASE name = ToolRenameSymbol -> <<"RenameSymbolFailed", kind>>
           [] name = ToolMoveSymbol -> <<"MoveSymbolFailed", kind>>
           [] OTHER -> <<"RemoveAliasFailed", kind>>

\* whether the handler's try block encloses the failing step: the
\* remove-path-alias handler constructs its Project before the try
handlerCatches(name, kind) == ~(name = ToolRemoveAlias /\ kind = ErrLoad)

\* the sets of files a call of project.save() can have written when it
\* settles; files new to storage are written in order
SaveOutcomes(p, d) ==
    {w \in SUBSET getChangedFiles(p) :
        /\ w = getChangedFiles(p) \/ Cardinality(w) <= MaxWritten
        /\ \A i \in w : i > Len(d) => \A j \in (Len(d) + 1)..i : j \in w}

\* storage after a save that wrote the files w of project p
savePartially(p, d, w) ==
    LET n == IF \E i \in w : i > Len(d)
             THEN CHOOSE i \in w : \A j \in w : j <= i
             ELSE Len(d)
    IN [i \in 1..n |->
           IF i \in w THEN [path |-> p[i].path, edges |-> p[i].edges, syms |-> p[i].syms]
           ELSE d[i]]

-----------------------------------------------------------------------------
(* The state machine *)

Init ==
    /\ disk \in Fixtures
    /\ proj = <<>>
    /\ pc = "idle"
    /\ tool = ""
    /\ renames = <<>>
    /\ dryRun = FALSE
    /\ target = NoTarget
    /\ ops = <<>>
    /\ decls = <<>>
    /\ changedFilePaths = {}
    /\ errorKind = ""
    /\ moves = 0
    /\ saveCalled = FALSE
    /\ startDisk = disk
    /\ result = NoResult
    /\ dryReport = NoReport
    /\ persisted = {}
    /\ runs = 0
    /\ throws \in ThrowChoices(disk)
    /\ counts = [updated |-> 0, skipped |-> 0]
    /\ origin = NoOrigin
    /\ tsconfigOk \in BOOLEAN
    /\ deadline = ""
    /\ aborted = FALSE
    /\ signal = NoSignal

\* the rename handler up to the call of renameFileSystemEntry: the timer is
\* armed, then the project is loaded inside the handler's try block
StartRename(rs, dr, undone) ==
    /\ tool' = ToolRename
    /\ origin' = undone
    /\ renames' = rs
    /\ dryRun' = dr
    /\ proj' = IF tsconfigOk THEN initializeProject(disk) ELSE <<>>
    /\ startDisk' = disk
    /\ ops' = <<>>
    /\ decls' = <<>>
    /\ changedFilePaths' = {}
    /\ errorKind' = IF tsconfigOk THEN "" ELSE ErrLoad
    /\ moves' = 0
    /\ saveCalled' = FALSE
    /\ persisted' = {}
    /\ runs' = runs + 1
    /\ counts' = [updated |-> 0, skipped |-> 0]
    /\ deadline' = ""
    /\ aborted' = FALSE
    /\ pc' = IF tsconfigOk THEN "plan" ELSE "return"
    /\ UNCHANGED <<signal, disk, target, result, dryReport, throws, tsconfigOk>>

\* the first call of a session
CallRename ==
    /\ pc = "idle" /\ runs = 0
    /\ \E rs \in Batches(disk), dr \in BOOLEAN : StartRename(rs, dr, NoOrigin)

\* timeoutSeconds elapse while the call is in one of its stages; the timer's
\* callback becomes runnable
TimerElapses ==
    /\ tool = ToolRename
    /\ runs <= MaxTimedRuns
    /\ pc \in TimedStages
    /\ deadline = ""
    /\ deadline' = pc
    /\ UNCHANGED <<signal, disk, proj, pc, tool, renames, dryRun, target, ops, decls,
                   changedFilePaths, errorKind, moves, saveCalled, startDisk,
                   result, dryReport, persisted, runs, throws, counts, origin,
                   tsconfigOk, aborted>>

\* the timer's callback aborts the controller. The stages run without
\* yielding to the event loop (their only awaits are of an async function
\* that awaits nothing), so the callback runs only while the call awaits
\* project.save()
TimerCallback ==
    /\ tool = ToolRename
    /\ pc = "saving"
    /\ deadline # ""
    /\ ~aborted
    /\ aborted' = TRUE
    /\ UNCHANGED <<signal, disk, proj, pc, tool, renames, dryRun, target, ops, decls,
                   changedFilePaths, errorKind, moves, saveCalled, startDisk,
                   result, dryReport, persisted, runs, throws, counts, origin,
                   tsconfigOk, deadline>>

\* signal.throwIfAborted() on an aborted signal: signal.reason is thrown
AbortStep ==
    /\ errorKind' = ErrTimeout
    /\ pc' = "return"
    /\ UNCHANGED <<signal, disk, proj, tool, renames, dryRun, target, ops, decls,
                   changedFilePaths, moves, saveCalled, startDisk, result,
                   dryReport, persisted, runs, throws, counts, origin,
                   tsconfigOk, deadline, aborted>>

\* renameFileSystemEntry lines 150-152
Plan ==
    /\ pc = "plan"
    /\ IF aborted THEN AbortStep
       ELSE /\ LET r == prepareRenames(proj, renames) IN
                /\ ops' = r.ops
                /\ errorKind' = r.err
                /\ pc' = IF r.err = "" THEN "discover" ELSE "return"
            /\ UNCHANGED <<signal, disk, proj, tool, renames, dryRun, target, decls,
                           changedFilePaths, moves, saveCalled, startDisk,
                           result, dryReport, persisted, runs, throws, counts,
                           origin, tsconfigOk, deadline, aborted>>

\* the same step looking at the project as the moves will leave it
Discover_AfterMoves ==
    /\ pc = "discover"
    /\ IF aborted THEN AbortStep
       ELSE /\ decls' = findAllDeclarationsToUpdate(
                            moveFileSystemEntries(proj, ops).proj, ops)
            /\ pc' = "move"
            /\ UNCHANGED <<signal, disk, proj, tool, renames, dryRun, target, ops,
                           changedFilePaths, errorKind, moves, saveCalled,
                           startDisk, result, dryReport, persisted, runs,
                           throws, counts, origin, tsconfigOk, deadline,
                           aborted>>

\* renameFileSystemEntry lines 153-159
Discover ==
    /\ pc = "discover"
    /\ IF aborted THEN AbortStep
       ELSE /\ decls' = findAllDeclarationsToUpdate(proj, ops)
            /\ pc' = "move"
            /\ UNCHANGED <<signal, disk, proj, tool, renames, dryRun, target, ops,
                           changedFilePaths, errorKind, moves, saveCalled,
                           startDisk, result, dryReport, persisted, runs,
                           throws, counts, origin, tsconfigOk, deadline,
                           aborted>>

\* renameFileSystemEntry lines 160-162
Move ==
    /\ pc = "move"
    /\ IF aborted THEN AbortStep
       ELSE /\ LET r == moveFileSystemEntries(proj, ops) IN
                /\ proj' = r.proj
                /\ moves' = r.moves
                /\ errorKind' = r.err
                /\ pc' = IF r.err = "" THEN "rewrite" ELSE "return"
            /\ UNCHANGED <<signal, disk, tool, renames, dryRun, target, ops, decls,
                           changedFilePaths, saveCalled, startDisk, result,
                           dryReport, persisted, runs, throws, counts, origin,
                           tsconfigOk, deadline, aborted>>

\* the same step with the save decided without looking at dryRun
Rewrite_SaveOnDryRun ==
    /\ pc = "rewrite"
    /\ IF aborted THEN AbortStep
       ELSE /\ LET r == updateModuleSpecifiers(proj, decls, ops, throws) IN
                /\ proj' = r.proj
                /\ counts' = [updated |-> r.updated, skipped |-> r.skipped]
            /\ changedFilePaths' = ChangedPaths(proj')
            /\ pc' = IF getChangedFiles(proj') # {} THEN "persist" ELSE "return"
            /\ UNCHANGED <<signal, disk, tool, renames, dryRun, target, ops, decls,
                           errorKind, moves, saveCalled, startDisk, result,
                           dryReport, persisted, runs, throws, origin,
                           tsconfigOk, deadline, aborted>>

\* renameFileSystemEntry lines 163-176
Rewrite ==
    /\ pc = "rewrite"
    /\ IF aborted THEN AbortStep
       ELSE /\ LET r == updateModuleSpecifiers(proj, decls, ops, throws) IN
                /\ proj' = r.proj
                /\ counts' = [updated |-> r.updated, skipped |-> r.skipped]
            /\ changedFilePaths' = ChangedPaths(proj')
            /\ pc' = IF ~dryRun /\ getChangedFiles(proj') # {}
                     THEN "persist" ELSE "return"
            /\ UNCHANGED <<signal, disk, tool, renames, dryRun, target, ops, decls,
                           errorKind, moves, saveCalled, startDisk, result,
                           dryReport, persisted, runs, throws, origin,
                           tsconfigOk, deadline, aborted>>

\* the same step returning once the save was dispatched, not awaiting it
Persist_ReportBeforeWrite ==
    /\ pc = "persist"
    /\ IF aborted THEN AbortStep
       ELSE /\ saveCalled' = TRUE
            /\ pc' = "return"
            /\ UNCHANGED <<signal, disk, proj, tool, renames, dryRun, target, ops,
                           decls, changedFilePaths, errorKind, moves,
                           startDisk, result, dryReport, persisted, runs,
                           throws, counts, origin, tsconfigOk, deadline,
                           aborted>>

\* renameFileSystemEntry line 177 and saveProjectChanges up to its await of
\* project.save()
Persist ==
    /\ pc = "persist"
    /\ IF aborted THEN AbortStep
       ELSE /\ saveCalled' = TRUE
            /\ pc' = "saving"
            /\ UNCHANGED <<signal, disk, proj, tool, renames, dryRun, target, ops,
                           decls, changedFilePaths, errorKind, moves,
                           startDisk, result, dryReport, persisted, runs,
                           throws, counts, origin, tsconfigOk, deadline,
                           aborted>>

\* project.save() resolves: every unsaved file was written
SaveCompletes ==
    /\ pc = "saving"
    /\ disk' = saveProjectChanges(proj, disk)
    /\ persisted' = writtenPaths(proj)
    /\ proj' = MarkSaved(proj)
    /\ pc' = "return"
    /\ UNCHANGED <<signal, tool, renames, dryRun, target, ops, decls, changedFilePaths,
                   errorKind, moves, saveCalled, startDisk, result, dryReport,
                   runs, throws, counts, origin, tsconfigOk, deadline, aborted>>

\* project.save() rejects after writing only the files w; saveProjectChanges
\* rethrows it wrapped in a plain Error
SaveFails ==
    /\ pc = "saving"
    /\ \E w \in SaveOutcomes(proj, disk) :
        /\ w # getChangedFiles(proj)
        /\ disk' = savePartially(proj, disk, w)
        /\ persisted' = {proj[i].path : i \in w}
        /\ proj' = [i \in FileIds(proj) |->
                       IF i \in w THEN [proj[i] EXCEPT !.saved = TRUE] ELSE proj[i]]
    /\ errorKind' = ErrPersistence
    /\ pc' = "return"
    /\ UNCHANGED <<signal, tool, renames, dryRun, target, ops, decls, changedFilePaths,
                   moves, saveCalled, startDisk, result, dryReport, runs,
                   throws, counts, origin, tsconfigOk, deadline, aborted>>

\* renameFileSystemEntry lines 191-216 and the handler's lines 130-198: the
\* result is built and the timer is cleared
Return ==
    /\ pc = "return"
    /\ result' = [tool |-> tool, isError |-> errorKind # "", kind |-> errorKind,
                  files |-> IF errorKind = "" THEN changedFilePaths ELSE {},
                  dryRun |-> dryRun,
                  text |-> renameText(errorKind, dryRun),
                  thrown |-> FALSE]
    /\ dryReport' = IF dryRun /\ errorKind = ""
                    THEN [set |-> TRUE, disk |-> startDisk,
                          files |-> changedFilePaths]
                    ELSE dryReport
    /\ deadline' = ""
    /\ pc' = "idle"
    /\ UNCHANGED <<signal, disk, proj, tool, renames, dryRun, target, ops, decls,
                   changedFilePaths, errorKind, moves, saveCalled, startDisk,
                   persisted, runs, throws, counts, origin, tsconfigOk,
                   aborted>>

\* the same step with the save not skipped after a failed operation
FinishTool_SaveAfterFailure(name, t, dr, r, w) ==
    LET saving == ~dr
        err == r.err
        caught == handlerCatches(name, err)
    IN
    /\ tool' = name
    /\ target' = t
    /\ dryRun' = dr
    /\ startDisk' = disk
    /\ proj' = IF saving
               THEN [i \in FileIds(r.proj) |->
                       IF i \in w THEN [r.proj[i] EXCEPT !.saved = TRUE]
                       ELSE r.proj[i]]
               ELSE r.proj
    /\ errorKind' = err
    /\ changedFilePaths' = IF r.err = "" THEN ChangedPaths(r.proj) ELSE {}
    /\ saveCalled' = saving
    /\ disk' = IF saving THEN savePartially(r.proj, disk, w) ELSE disk
    /\ persisted' = IF saving THEN {r.proj[i].path : i \in w} ELSE {}
    /\ result' = [tool |-> name, isError |-> err # "" /\ caught, kind |-> err,
                  files |-> IF err = "" THEN ChangedPaths(r.proj) ELSE {},
                  dryRun |-> dr,
                  text |-> IF caught THEN toolText(name, err, dr) ELSE <<>>,
                  thrown |-> ~caught]
    /\ runs' = runs + 1
    /\ UNCHANGED <<signal, pc, renames, ops, decls, moves, dryReport, throws, counts,
                   origin, tsconfigOk, deadline, aborted>>

\* what the three single-step handlers share: the refactoring r was applied
\* to a freshly loaded project, then the handler saves unless dryRun; the save
\* writes the files w, and fails unless they are all the unsaved files
FinishTool(name, t, dr, r, w) ==
    LET saving == r.err = "" /\ ~dr
        err == IF saving /\ w # getChangedFiles(r.proj) THEN ErrPersistence
               ELSE r.err
        caught == handlerCatches(name, err)
    IN
    /\ tool' = name
    /\ target' = t
    /\ dryRun' = dr
    /\ startDisk' = disk
    /\ proj' = IF saving
               THEN [i \in FileIds(r.proj) |->
                       IF i \in w THEN [r.proj[i] EXCEPT !.saved = TRUE]
                       ELSE r.proj[i]]
               ELSE r.proj
    /\ errorKind' = err
    /\ changedFilePaths' = IF r.err = "" THEN ChangedPaths(r.proj) ELSE {}
    /\ saveCalled' = saving
    /\ disk' = IF saving THEN savePartially(r.proj, disk, w) ELSE disk
    /\ persisted' = IF saving THEN {r.proj[i].path : i \in w} ELSE {}
    /\ result' = [tool |-> name, isError |-> err # "" /\ caught, kind |-> err,
                  files |-> IF err = "" THEN ChangedPaths(r.proj) ELSE {},
                  dryRun |-> dr,
                  text |-> IF caught THEN toolText(name, err, dr) ELSE <<>>,
                  thrown |-> ~caught]
    /\ runs' = runs + 1
    /\ UNCHANGED <<signal, pc, renames, ops, decls, moves, dryReport, throws, counts,
                   origin, tsconfigOk, deadline, aborted>>

\* the outcome of each single-step operation on storage d; the project is
\* loaded first
runRenameSymbol(d, t) ==
    IF tsconfigOk THEN renameSymbol(initializeProject(d), t)
    ELSE [err |-> ErrLoad, proj |-> <<>>]

runMoveSymbol(d, t) ==
    IF tsconfigOk THEN moveSymbolToFile(initializeProject(d), t)
    ELSE [err |-> ErrLoad, proj |-> <<>>]

runRemovePathAlias(d, t) ==
    IF tsconfigOk THEN [err |-> "", proj |-> removePathAlias(initializeProject(d), t)]
    ELSE [err |-> ErrLoad, proj |-> <<>>]

runTool(name, d, t) ==
    CASE name = ToolRenameSymbol -> runRenameSymbol(d, t)
      [] name = ToolMoveSymbol -> runMoveSymbol(d, t)
      [] OTHER -> runRemovePathAlias(d, t)

\* one call of a single-step handler
CallTool(name, t, dr) ==
    LET r == runTool(name, disk, t) IN
    \E w \in (IF r.err = "" /\ ~dr THEN SaveOutcomes(r.proj, disk)
              ELSE {getChangedFiles(r.proj)}) :
        FinishTool(name, t, dr, r, w)

\* the rename_symbol_by_tsmorph handler
RenameSymbolTool ==
    /\ pc = "idle" /\ runs = 0
    /\ \E t \in SymbolArgs(disk), dr \in BOOLEAN : CallTool(ToolRenameSymbol, t, dr)

\* the move_symbol_to_file handler
MoveSymbolTool ==
    /\ pc = "idle" /\ runs = 0
    /\ \E t \in MoveArgs(disk), dr \in BOOLEAN : CallTool(ToolMoveSymbol, t, dr)

\* the remove_path_alias_by_tsmorph handler
RemovePathAliasTool ==
    /\ pc = "idle" /\ runs = 0
    /\ \E t \in AliasArgs(disk), dr \in BOOLEAN : CallTool(ToolRemoveAlias, t, dr)

\* a call by a documented name that is not registered: the server finds no
\* handler and the call is rejected
CallUnknownTool ==
    /\ pc = "idle" /\ runs = 0
    /\ \E n \in DocumentedTools \ registeredTools :
        /\ tool' = n
        /\ result' = [tool |-> "", isError |-> FALSE, kind |-> ErrToolNotFound,
                      files |-> {}, dryRun |-> FALSE, text |-> <<>>,
                      thrown |-> TRUE]
    /\ errorKind' = ErrToolNotFound
    /\ runs' = runs + 1
    /\ UNCHANGED <<signal, disk, proj, pc, renames, dryRun, target, ops, decls,
                   changedFilePaths, moves, saveCalled, startDisk, dryReport,
                   persisted, throws, counts, origin, tsconfigOk, deadline,
                   aborted>>

\* a later call of the session repeats the first call's tool and arguments,
\* with either value of dryRun; a session ends with a call whose save failed
Replay ==
    /\ pc = "idle" /\ 0 < runs /\ runs < MaxRuns
    /\ tool \in registeredTools
    /\ errorKind # ErrPersistence
    /\ \E dr \in BOOLEAN :
       IF tool = ToolRename THEN StartRename(renames, dr, NoOrigin)
       ELSE CallTool(tool, target, dr)

\* after a committed rename of one mapping, the call that renames it back
CallInverse ==
    /\ pc = "idle" /\ 0 < runs /\ runs < MaxRuns
    /\ tool = ToolRename /\ Len(renames) = 1
    /\ ~result.isError /\ ~result.dryRun
    /\ StartRename(<<[oldPath |-> renames[1].newPath,
                      newPath |-> renames[1].oldPath]>>,
                   FALSE, [set |-> TRUE, disk |-> startDisk])

Next ==
    \/ CallRename
    \/ CallInverse
    \/ TimerElapses
    \/ TimerCallback
    \/ Plan
    \/ Discover
    \/ Move
    \/ Rewrite
    \/ Persist
    \/ SaveCompletes
    \/ SaveFails
    \/ Return
    \/ RenameSymbolTool
    \/ MoveSymbolTool
    \/ RemovePathAliasTool
    \/ CallUnknownTool
    \/ Replay

Spec == Init /\ [][Next]_vars

-----------------------------------------------------------------------------
(* renameFileSystemEntry called directly with the caller's AbortSignal. Each *)
(* throwIfAborted() of the pipeline and each item its loops work on is an  *)
(* event of the call, in the order the code reaches them; the signal is     *)
(* aborted from the call's event number signal.abortAt on                   *)

ToolDirect == "renameFileSystemEntry"

\* signal?.throwIfAborted() at the head of function or loop body `loop`
Check(loop) == [kind |-> "check", loop |-> loop]

\* one iteration of the loop's work
Item(loop) == [kind |-> "item", loop |-> loop]

\* n iterations of a loop whose body holds no check
Items(loop, n) == [k \in 1..n |-> Item(loop)]

\* n iterations of a loop whose body starts with a check
CheckedItems(loop, n) ==
    [k \in 1..(2 * n) |-> IF k % 2 = 1 THEN Check(loop) ELSE Item(loop)]

RECURSIVE planEvents(_, _, _, _)
\* prepareRenames lines 34-85: the check of each mapping (35), the one of
\* checkDestinationExists (12), the one before the lookups (49), the one of a
\* directory mapping (62), and the loop over the directory's files (67-80)
planEvents(p, rs, i, uniqueNewPaths) ==
    IF i > Len(rs) THEN <<>>
    ELSE <<Check("mapping"), Item("mapping")>> \o
         (IF rs[i].newPath \in uniqueNewPaths THEN <<>>
          ELSE <<Check("checkDestinationExists")>> \o
               (IF checkDestinationExists(p, rs[i].newPath) THEN <<>>
                ELSE <<Check("lookup")>> \o
                     (IF getSourceFile(p, rs[i].oldPath) # 0
                      THEN planEvents(p, rs, i + 1,
                                      uniqueNewPaths \cup {rs[i].newPath})
                      ELSE IF getDirectory(p, rs[i].oldPath)
                      THEN <<Check("directory")>>
                           \o Items("descendant",
                                    Len(getDescendantSourceFiles(p, rs[i].oldPath)))
                           \o planEvents(p, rs, i + 1,
                                         uniqueNewPaths \cup {rs[i].newPath})
                      ELSE <<>>)))

RECURSIVE discoverEvents(_, _, _)
\* findAllDeclarationsToUpdate lines 43-85: the check of each operation (44)
\* and the loop over the declarations found for it (52-84)
discoverEvents(p, os, i) ==
    IF i > Len(os) THEN <<>>
    ELSE <<Check("operation"), Item("operation")>>
         \o Items("declaration", Len(findDeclarationsForRenameOperation(p, os[i])))
         \o discoverEvents(p, os, i + 1)

\* the events of each stage, the check that renameFileSystemEntry makes
\* before it first
planStage(p, rs) ==
    <<Check("plan"), Check("prepareRenames")>> \o planEvents(p, rs, 1, {})

discoverStage(p, os) ==
    <<Check("discover"), Check("findAllDeclarationsToUpdate")>>
    \o discoverEvents(p, os, 1)

\* the loop of moveFileSystemEntries ends with the move that throws
moveStage(p, os) ==
    LET r == moveFileSystemEntries(p, os) IN
    <<Check("move"), Check("moveFileSystemEntries")>>
    \o CheckedItems("file", IF r.err = "" THEN Len(os) ELSE r.moves + 1)

rewriteStage(ds) ==
    <<Check("rewrite"), Check("updateModuleSpecifiers")>>
    \o CheckedItems("edge", Len(ds))

persistStage == <<Check("persist"), Check("saveProjectChanges")>>

\* signal.aborted when the call's k-th event starts
SignalAbortedAt(sig, k) == sig.abortAt # 0 /\ sig.abortAt <= k

\* the position in ev of the first check that finds the signal aborted, 0 if
\* there is none
FirstStop(ev, sig) ==
    LET stops == {j \in 1..Len(ev) :
                     ev[j].kind = "check" /\ SignalAbortedAt(sig, sig.polled + j)}
    IN  IF stops = {} THEN 0
        ELSE CHOOSE j \in stops : \A k \in stops : j <= k

\* the events of ev that run before such a check throws
Ran(ev, sig) ==
    IF FirstStop(ev, sig) = 0 THEN Len(ev) ELSE FirstStop(ev, sig) - 1

\* the iterations of loop among them
ItemsRan(ev, sig, loop) ==
    Cardinality({j \in 1..Ran(ev, sig) : ev[j] = Item(loop)})

\* the iterations that ran although the signal was aborted
LateItems(ev, sig) ==
    Cardinality({j \in 1..Ran(ev, sig) :
                    ev[j].kind = "item" /\ SignalAbortedAt(sig, sig.polled + j)})

\* the signal's record after the events ev of a stage
afterStage(ev, sig, stage) ==
    [abortAt |-> sig.abortAt,
     polled |-> sig.polled + (IF FirstStop(ev, sig) = 0 THEN Len(ev)
                              ELSE FirstStop(ev, sig)),
     late |-> sig.late + LateItems(ev, sig),
     stage |-> IF FirstStop(ev, sig) = 0 THEN sig.stage ELSE stage]

\* a caller passes a project, a batch and a signal that it aborts when the
\* call reaches its k-th event (never if k = 0)
CallDirect ==
    /\ pc = "idle" /\ runs = 0
    /\ tsconfigOk /\ throws = {}
    /\ \E rs \in Batches(disk), dr \in BOOLEAN, k \in 0..MaxAbortAt :
        /\ renames' = rs
        /\ dryRun' = dr
        /\ signal' = [abortAt |-> k, polled |-> 0, late |-> 0, stage |-> ""]
        /\ aborted' = (k = 1)
    /\ tool' = ToolDirect
    /\ proj' = initializeProject(disk)
    /\ startDisk' = disk
    /\ runs' = runs + 1
    /\ pc' = "plan"
    /\ UNCHANGED <<disk, target, ops, decls, changedFilePaths, errorKind,
                   moves, saveCalled, result, dryReport, persisted, throws,
                   counts, origin, tsconfigOk, deadline>>

\* what every stage of the direct call does with the signal; a check that
\* finds it aborted throws signal.reason
Polled(ev, stage) ==
    /\ signal' = afterStage(ev, signal, stage)
    /\ aborted' = SignalAbortedAt(signal', signal'.polled + 1)

\* renameFileSystemEntry lines 150-152 and prepareRenames
PlanPolled ==
    /\ pc = "plan" /\ tool = ToolDirect
    /\ LET ev == planStage(proj, renames)
           r == prepareRenames(proj, renames)
       IN  /\ Polled(ev, "plan")
           /\ IF FirstStop(ev, signal) # 0
              THEN ops' = ops /\ errorKind' = ErrAborted /\ pc' = "return"
              ELSE /\ ops' = r.ops
                   /\ errorKind' = r.err
                   /\ pc' = IF r.err = "" THEN "discover" ELSE "return"
    /\ UNCHANGED <<disk, proj, tool, renames, dryRun, target, decls,
                   changedFilePaths, moves, saveCalled, startDisk, result,
                   dryReport, persisted, runs, throws, counts, origin,
                   tsconfigOk, deadline>>

\* lines 153-159 and findAllDeclarationsToUpdate
DiscoverPolled ==
    /\ pc = "discover" /\ tool = ToolDirect
    /\ LET ev == discoverStage(proj, ops) IN
           /\ Polled(ev, "discover")
           /\ IF FirstStop(ev, signal) # 0
              THEN decls' = decls /\ errorKind' = ErrAborted /\ pc' = "return"
              ELSE /\ decls' = findAllDeclarationsToUpdate(proj, ops)
                   /\ errorKind' = errorKind
                   /\ pc' = "move"
    /\ UNCHANGED <<disk, proj, tool, renames, dryRun, target, ops,
                   changedFilePaths, moves, saveCalled, startDisk, result,
                   dryReport, persisted, runs, throws, counts, origin,
                   tsconfigOk, deadline>>

\* the same step going on to the rewrite stage after a move that threw
MovePolled_IgnoreFailure ==
    /\ pc = "move" /\ tool = ToolDirect
    /\ LET ev == moveStage(proj, ops)
           stopped == FirstStop(ev, signal) # 0
           r == moveFileSystemEntries(
                    proj, IF stopped THEN SubSeq(ops, 1, ItemsRan(ev, signal, "file"))
                          ELSE ops)
       IN  /\ Polled(ev, "move")
           /\ proj' = r.proj
           /\ moves' = r.moves
           /\ errorKind' = IF stopped THEN ErrAborted ELSE r.err
           /\ pc' = IF ~stopped THEN "rewrite" ELSE "return"
    /\ UNCHANGED <<disk, tool, renames, dryRun, target, ops, decls,
                   changedFilePaths, saveCalled, startDisk, result, dryReport,
                   persisted, runs, throws, counts, origin, tsconfigOk,
                   deadline>>

\* lines 160-162 and moveFileSystemEntries: the files before the check that
\* threw were moved
MovePolled ==
    /\ pc = "move" /\ tool = ToolDirect
    /\ LET ev == moveStage(proj, ops)
           stopped == FirstStop(ev, signal) # 0
           r == moveFileSystemEntries(
                    proj, IF stopped THEN SubSeq(ops, 1, ItemsRan(ev, signal, "file"))
                          ELSE ops)
       IN  /\ Polled(ev, "move")
           /\ proj' = r.proj
           /\ moves' = r.moves
           /\ errorKind' = IF stopped THEN ErrAborted ELSE r.err
           /\ pc' = IF ~stopped /\ r.err = "" THEN "rewrite" ELSE "return"
    /\ UNCHANGED <<disk, tool, renames, dryRun, target, ops, decls,
                   changedFilePaths, saveCalled, startDisk, result, dryReport,
                   persisted, runs, throws, counts, origin, tsconfigOk,
                   deadline>>

\* lines 163-176 and updateModuleSpecifiers: the declarations before the
\* check that threw were rewritten
RewritePolled ==
    /\ pc = "rewrite" /\ tool = ToolDirect
    /\ LET ev == rewriteStage(decls)
           stopped == FirstStop(ev, signal) # 0
           r == updateModuleSpecifiers(
                    proj, IF stopped THEN SubSeq(decls, 1, ItemsRan(ev, signal, "edge"))
                          ELSE decls,
                    ops, throws)
       IN  /\ Polled(ev, "rewrite")
           /\ proj' = r.proj
           /\ counts' = [updated |-> r.updated, skipped |-> r.skipped]
           /\ changedFilePaths' = IF stopped THEN changedFilePaths
                                  ELSE ChangedPaths(r.proj)
           /\ errorKind' = IF stopped THEN ErrAborted ELSE errorKind
           /\ pc' = IF ~stopped /\ ~dryRun /\ getChangedFiles(r.proj) # {}
                    THEN "persist" ELSE "return"
    /\ UNCHANGED <<disk, tool, renames, dryRun, target, ops, decls, moves,
                   saveCalled, startDisk, result, dryReport, persisted, runs,
                   throws, origin, tsconfigOk, deadline>>

\* the same step entering the save without looking at the signal
PersistPolled_Unchecked ==
    /\ pc = "persist" /\ tool = ToolDirect
    /\ signal' = [signal EXCEPT !.polled = @ + Len(persistStage)]
    /\ aborted' = SignalAbortedAt(signal', signal'.polled + 1)
    /\ saveCalled' = TRUE
    /\ errorKind' = errorKind
    /\ pc' = "saving"
    /\ UNCHANGED <<disk, proj, tool, renames, dryRun, target, ops, decls,
                   changedFilePaths, moves, startDisk, result, dryReport,
                   persisted, runs, throws, counts, origin, tsconfigOk,
                   deadline>>

\* line 177 and saveProjectChanges up to its await of project.save()
PersistPolled ==
    /\ pc = "persist" /\ tool = ToolDirect
    /\ Polled(persistStage, "persist")
    /\ IF FirstStop(persistStage, signal) # 0
       THEN saveCalled' = saveCalled /\ errorKind' = ErrAborted /\ pc' = "return"
       ELSE saveCalled' = TRUE /\ errorKind' = errorKind /\ pc' = "saving"
    /\ UNCHANGED <<disk, proj, tool, renames, dryRun, target, ops, decls,
                   changedFilePaths, moves, startDisk, result, dryReport,
                   persisted, runs, throws, counts, origin, tsconfigOk,
                   deadline>>

\* lines 191-216: the promise the caller holds is fulfilled with the changed
\* files or rejected with the error that left the pipeline
ReturnDirect ==
    /\ pc = "return" /\ tool = ToolDirect
    /\ result' = [tool |-> tool, isError |-> errorKind # "", kind |-> errorKind,
                  files |-> IF errorKind = "" THEN changedFilePaths ELSE {},
                  dryRun |-> dryRun,
                  text |-> IF errorKind = "" THEN <<>>
                           ELSE <<thrownByRename(errorKind)>>,
                  thrown |-> errorKind # ""]
    /\ pc' = "idle"
    /\ UNCHANGED <<signal, disk, proj, tool, renames, dryRun, target, ops,
                   decls, changedFilePaths, errorKind, moves, saveCalled,
                   startDisk, dryReport, persisted, runs, throws, counts,
                   origin, tsconfigOk, deadline, aborted>>

NextDirect ==
    \/ CallDirect
    \/ PlanPolled
    \/ DiscoverPolled
    \/ MovePolled
    \/ RewritePolled
    \/ PersistPolled
    \/ SaveCompletes
    \/ SaveFails
    \/ ReturnDirect

SpecDirect == Init /\ [][NextDirect]_vars


-----------------------------------------------------------------------------
(* Vocabulary of the properties, stated on storage as it was when the call *)
(* started                                                                 *)

PlanErrors == {ErrDuplicateTarget, ErrDestinationExists, ErrSourceNotFound}

\* a rename call is running or was the last call, and planning has run
Planned == tool = ToolRename /\ runs > 0 /\ tsconfigOk /\ pc # "plan"

\* the rewrite stage of that call has run
Rewritten ==
    tool = ToolRename /\ runs > 0 /\ errorKind = ""
    /\ pc \in {"persist", "saving", "return", "idle"}

\* the call committed: it returned without error and was no dry run
Committed ==
    pc = "idle" /\ result.tool = ToolRename /\ ~result.isError /\ ~result.dryRun

StartPaths == {startDisk[i].path : i \in 1..Len(startDisk)}

IsStartDir(path) ==
    \E i \in 1..Len(startDisk) :
        /\ Len(path) < Len(startDisk[i].path)
        /\ \A k \in 1..Len(path) : path[k] = startDisk[i].path[k]

DestTaken(path) == path \in StartPaths \/ IsStartDir(path)

SourceKnown(path) == path \in StartPaths \/ IsStartDir(path)

MappingOk(m) == ~DestTaken(m.newPath) /\ SourceKnown(m.oldPath)

HasDuplicateTarget(rs) ==
    \E i, j \in 1..Len(rs) : i < j /\ rs[i].newPath = rs[j].newPath

\* the position of the first mapping whose newPath repeats an earlier one
FirstRepeat(rs) ==
    CHOOSE j \in 1..Len(rs) :
        /\ \E i \in 1..(j - 1) : rs[i].newPath = rs[j].newPath
        /\ \A h \in 1..(j - 1) : \A i \in 1..(h - 1) : rs[i].newPath # rs[h].newPath

NothingMoved ==
    /\ moves = 0
    /\ ~saveCalled
    /\ persisted = {}
    /\ disk = startDisk
    /\ \A i \in 1..Len(proj) :
          /\ proj[i].saved
          /\ proj[i].path = startDisk[i].path
          /\ proj[i].edges = startDisk[i].edges

\* the file of the project that was at path when the call started
StartFile(path) == CHOOSE i \in 1..Len(startDisk) : startDisk[i].path = path

-----------------------------------------------------------------------------
(* C1 *)

\* C1: after a successful commit of renameFileSystemEntry in which no
\* setModuleSpecifier call throws, every edge that
\* resolved to a renamed file before the operation resolves, from its owning
\* file's final location, to that file at its new path.
C1_EdgesResolveAfterCommit ==
    (Committed /\ throws = {}) =>
        \A i \in 1..Len(startDisk) : \A k \in 1..Len(startDisk[i].edges) :
            LET before == ResolveSpecifier(startDisk[i].path,
                              startDisk[i].edges[k].spec, StartPaths)
            IN  (before # NoPath
                 /\ \E o \in 1..Len(ops) : ops[o].oldPath = before)
                => ResolveSpecifier(disk[i].path, disk[i].edges[k].spec,
                                    {disk[j].path : j \in 1..Len(disk)})
                   = disk[StartFile(before)].path

-----------------------------------------------------------------------------
(* C2 *)

\* C2 as claimed: a batch with two mappings of the same newPath always fails
\* with DuplicateTarget, with no move and nothing persisted.
C2_DuplicateTargetAlways ==
    (Planned /\ HasDuplicateTarget(renames))
        => (errorKind = ErrDuplicateTarget /\ NothingMoved)

\* C2 amended: a batch with two mappings of the same newPath always fails
\* planning, with no move, no edit and nothing persisted; the error is
\* DuplicateTarget exactly when every mapping before the first repeated one
\* passes its own destination and source checks, and otherwise it is the
\* DestinationExists or SourceNotFound of the first mapping that fails them.
C2_DuplicateBatchFailsPlanning ==
    (Planned /\ HasDuplicateTarget(renames)) =>
        /\ pc \in {"return", "idle"}
        /\ errorKind \in PlanErrors
        /\ ops = <<>>
        /\ NothingMoved
        /\ pc = "idle" => (result.isError /\ result.kind = errorKind)
        /\ errorKind = ErrDuplicateTarget
              <=> \A i \in 1..(FirstRepeat(renames) - 1) : MappingOk(renames[i])
        /\ errorKind = ErrDestinationExists
              => \E i \in 1..(FirstRepeat(renames) - 1) :
                    /\ DestTaken(renames[i].newPath)
                    /\ \A h \in 1..(i - 1) : MappingOk(renames[h])
        /\ errorKind = ErrSourceNotFound
              => \E i \in 1..(FirstRepeat(renames) - 1) :
                    /\ ~DestTaken(renames[i].newPath)
                    /\ ~SourceKnown(renames[i].oldPath)
                    /\ \A h \in 1..(i - 1) : MappingOk(renames[h])

\* a batch whose second mapping repeats the first one's newPath was rejected
\* with DuplicateTarget
C2_Witness ==
    /\ Planned /\ pc = "return"
    /\ HasDuplicateTarget(renames)
    /\ errorKind = ErrDuplicateTarget

-----------------------------------------------------------------------------
(* C3 *)

\* C3: prepareRenames returns operations only if no mapping's newPath names
\* an existing file or directory and every oldPath names an existing file or
\* directory; a batch that breaks either condition fails planning, with
\* DestinationExists only if some newPath exists and SourceNotFound only if
\* some oldPath is unknown; after a failed planning no operation list exists
\* and no file was moved or edited.
C3_PlanChecksDestinationAndSource ==
    Planned =>
        /\ errorKind \notin PlanErrors
              => \A i \in 1..Len(renames) : MappingOk(renames[i])
        /\ (\E i \in 1..Len(renames) : ~MappingOk(renames[i]))
              => errorKind \in PlanErrors
        /\ errorKind = ErrDestinationExists
              => \E i \in 1..Len(renames) : DestTaken(renames[i].newPath)
        /\ errorKind = ErrSourceNotFound
              => \E i \in 1..Len(renames) : ~SourceKnown(renames[i].oldPath)
        /\ errorKind \in PlanErrors
              => (ops = <<>> /\ NothingMoved /\ pc \in {"return", "idle"})

\* planning failed on the second mapping's destination after the first
\* mapping had passed its checks
C3_Witness ==
    /\ Planned /\ pc = "return"
    /\ errorKind = ErrDestinationExists
    /\ Len(renames) = 2
    /\ MappingOk(renames[1])
    /\ DestTaken(renames[2].newPath)
    /\ ops = <<>>

-----------------------------------------------------------------------------
(* C4 *)

\* C4: in every operation list returned by prepareRenames no two operations
\* have the same newPath, and no newPath is the path of an existing source
\* file that the batch does not rename.
C4_NewPathsUnique ==
    (Planned /\ errorKind \notin PlanErrors) =>
        /\ \A i, j \in 1..Len(ops) : i # j => ops[i].newPath # ops[j].newPath
        /\ \A i \in 1..Len(ops) :
              ops[i].newPath \in StartPaths
                  => \E j \in 1..Len(ops) : ops[j].oldPath = ops[i].newPath

-----------------------------------------------------------------------------
(* C5 *)

NoDestinationCollision ==
    /\ \A i, j \in 1..Len(ops) : i # j => ops[i].newPath # ops[j].newPath
    /\ \A i \in 1..Len(ops) : ~DestTaken(ops[i].newPath)

AffectedFiles ==
    {f \in StartPaths :
        \E i \in 1..Len(renames) :
            \/ renames[i].oldPath = f
            \/ /\ Len(renames[i].oldPath) < Len(f)
               /\ SubSeq(f, 1, Len(renames[i].oldPath)) = renames[i].oldPath}

\* C5: for a batch with no destination collision prepareRenames emits exactly
\* one operation per affected source file, and the oldPaths of the output are
\* the files that are a mapped file or lie below a mapped directory.
C5_OneOperationPerFile ==
    (Planned /\ errorKind \notin PlanErrors /\ NoDestinationCollision) =>
        /\ \A i, j \in 1..Len(ops) : i # j => ops[i].oldPath # ops[j].oldPath
        /\ {ops[i].oldPath : i \in 1..Len(ops)} = AffectedFiles

-----------------------------------------------------------------------------
(* C6 *)

\* the files whose content or path in the project differs from storage
WouldChange ==
    {proj[i].path : i \in {j \in 1..Len(proj) :
        \/ j > Len(disk)
        \/ proj[j].path # disk[j].path
        \/ proj[j].edges # disk[j].edges
        \/ proj[j].syms # disk[j].syms}}

\* C6: with dryRun = true no tool persists anything: save is never called,
\* storage stays as it was when the call started, and the result of a
\* successful call lists the files that would change: exactly the files a
\* save would write, among them every file that differs from storage.
C6_DryRunLeavesStorage ==
    (runs > 0 /\ dryRun) =>
        /\ ~saveCalled
        /\ persisted = {}
        /\ disk = startDisk
        /\ (pc = "idle" /\ ~result.isError)
              => /\ result.dryRun
                 /\ result.files = writtenPaths(proj)
                 /\ WouldChange \subseteq result.files

\* a dry run of the rename tool moved files in memory and returned the files
\* that would change, with storage untouched
C6_Witness ==
    /\ pc = "idle" /\ runs > 0 /\ dryRun
    /\ result.tool = ToolRename /\ result.dryRun /\ ~result.isError
    /\ moves > 0
    /\ result.files # {}
    /\ disk = startDisk

-----------------------------------------------------------------------------
(* C7 *)

-----------------------------------------------------------------------------
(* C8 *)

ImporterNotMoved(d) ==
    /\ \A o \in 1..Len(ops) : ops[o].oldPath # d.referencingFilePath
    /\ ~IsFailing(d, throws)

RelativeExtensionless(text) ==
    text[1] \in {".", ".."} /\ ExtName(Last(text)) = ""

SpecifierNow(d) == proj[d.file].edges[d.edge].spec

\* no file of the batch has two operations
OneOperationEach ==
    \A i, j \in 1..Len(ops) : i # j => ops[i].oldPath # ops[j].oldPath

\* the POSIX relative path from dir to the file at to, written with a leading
\* "./" or "../" and without the file's extension
RelativeNoExtension(dir, to) ==
    LET rel == pathRelative(dir, to)
        full == IF rel[1] = ".." THEN rel ELSE <<".">> \o rel
    IN  Append(Front(full), StripExt(Last(full)))

-----------------------------------------------------------------------------
(* C9 *)

\* C9: in a batch with one operation per file, an edge whose specifier can
\* be set, whose original specifier was index-simplified (it had no
\* extension or ended at a directory boundary) and whose target after the
\* rename is the index file of a directory is rewritten to the path of that
\* directory, never to the explicit "<dir>/index" form.
C9_IndexImportStaysDirectory ==
    (Rewritten /\ OneOperationEach) =>
        \A n \in 1..Len(decls) :
            (/\ ExtName(Last(decls[n].originalSpecifierText)) = ""
             /\ ~IsFailing(decls[n], throws)
             /\ Last(proj[StartFile(decls[n].resolvedPath)].path) = "index.ts")
            => /\ Last(SpecifierNow(decls[n])) \notin IndexNames
               /\ Normalize(dirname(proj[decls[n].file].path), SpecifierNow(decls[n]))
                  = dirname(proj[StartFile(decls[n].resolvedPath)].path)

-----------------------------------------------------------------------------
(* C10 *)

\* C10: in a batch with one operation per file, an import whose specifier
\* can be set and that references a directory's index file through the
\* directory path is rewritten to the explicit file path, which ends with the
\* index file's name and its extension.
C10_IndexImportBecomesExplicitFile ==
    (Rewritten /\ OneOperationEach) =>
        \A n \in 1..Len(decls) :
            (/\ Last(decls[n].resolvedPath) = "index.ts"
             /\ ~IsFailing(decls[n], throws)
             /\ Last(decls[n].originalSpecifierText) \notin IndexNames
             /\ Last(proj[StartFile(decls[n].resolvedPath)].path) = "index.ts")
            => Last(SpecifierNow(decls[n])) = "index.ts"

-----------------------------------------------------------------------------
(* C11 *)

\* the new path of the first operation for path, path itself if there is none
FirstNewPath(path) ==
    IF \E o \in 1..Len(ops) : ops[o].oldPath = path
    THEN ops[CHOOSE o \in 1..Len(ops) :
                 /\ ops[o].oldPath = path
                 /\ \A h \in 1..(o - 1) : ops[h].oldPath # path].newPath
    ELSE path

-----------------------------------------------------------------------------
(* C12 *)

FailingDecls == {n \in 1..Len(decls) : IsFailing(decls[n], throws)}

\* C12: when setModuleSpecifier throws for an edge, updateModuleSpecifiers
\* does not throw: the edge is counted as skipped and keeps its text, every
\* other edge of the batch is rewritten and counted as updated, and the call
\* of renameFileSystemEntry returns successfully.
C12_SetFailureIsSkipped ==
    Rewritten =>
        /\ counts.skipped = Cardinality(FailingDecls)
        /\ counts.updated = Len(decls) - Cardinality(FailingDecls)
        /\ \A n \in 1..Len(decls) :
              SpecifierNow(decls[n])
                  = IF n \in FailingDecls THEN decls[n].originalSpecifierText
                    ELSE newSpecifierFor(decls[n], ops)
        /\ pc = "idle" => (~result.isError /\ result.files = changedFilePaths)

\* a call returned successfully although setModuleSpecifier threw for one
\* edge, and an edge after that one was rewritten
C12_Witness ==
    /\ Rewritten /\ pc = "idle" /\ ~result.isError
    /\ counts.skipped = 1
    /\ \E n, m \in 1..Len(decls) :
          /\ n < m
          /\ n \in FailingDecls
          /\ m \notin FailingDecls
          /\ SpecifierNow(decls[m]) # decls[m].originalSpecifierText

-----------------------------------------------------------------------------
(* C13 *)

\* the skipped edges that the result of the call names
SurfacedEdges ==
    IF "skipped" \in DOMAIN result THEN result.skipped ELSE {}

\* C13: every edge skipped during specifier rewriting is surfaced to the
\* caller in the result of renameFileSystemEntry as a skipped-edge list.
C13_SkippedEdgesSurfaced ==
    (Rewritten /\ pc = "idle" /\ ~result.isError) =>
        \A n \in FailingDecls :
            [file |-> decls[n].file, edge |-> decls[n].edge] \in SurfacedEdges

-----------------------------------------------------------------------------
(* C14 *)

\* the rename back has been committed
RoundTripDone ==
    /\ origin.set /\ pc = "idle" /\ tool = ToolRename
    /\ ~result.isError /\ ~result.dryRun

\* the target, before the first rename, of edge k of file i
OriginTarget(i, k) ==
    ResolveSpecifier(origin.disk[i].path, origin.disk[i].edges[k].spec,
                     {origin.disk[j].path : j \in 1..Len(origin.disk)})

\* edge k of file i referenced a module that was renamed and renamed back
ReferencedRenamed(i, k) ==
    \E o \in 1..Len(ops) : ops[o].newPath = OriginTarget(i, k)

\* the specifier text has the style the rewriter writes for the target:
\* relative and extension-less, and dots only when the target is reached as
\* the index file of a directory
RewriterStyle(text, targetPath) ==
    /\ text[1] \in {".", ".."}
    /\ IF \A j \in 1..Len(text) : text[j] \in {".", ".."}
       THEN Last(targetPath) = "index.ts"
       ELSE /\ ExtName(Last(text)) = ""
            /\ Last(targetPath) # "index.ts"

-----------------------------------------------------------------------------
(* C15 - C18: the timeout of rename_filesystem_entry *)

EarlyStages == {"plan", "discover", "move", "rewrite"}

\* the handler reported the timeout-specific message
TimeoutReported == result.isError /\ result.text = <<"Error:", "TimedOut">>

\* every path the running call wrote is in storage with the project's content
WrittenInStorage ==
    \A i \in FileIds(proj) :
        proj[i].path \in persisted
            => /\ i <= Len(disk)
               /\ disk[i] = [path |-> proj[i].path, edges |-> proj[i].edges,
                             syms |-> proj[i].syms]

\* C15: if timeoutSeconds elapse while a rename call is in its plan,
\* discover, move or rewrite stage, the controller is aborted and the pipeline
\* stops at its next cancellation check: the run never reaches persistence.
C15_TimeoutStopsBeforePersistence ==
    (tool = ToolRename /\ deadline \in EarlyStages)
        => ~saveCalled /\ pc # "saving"

\* C16: a rename aborted by the timeout reports the timeout-specific error
\* message, which differs from the message of a generic rename failure.
C16_AbortReportsTimeoutError ==
    (pc = "idle" /\ result.tool = ToolRename /\ aborted) => TimeoutReported

\* C17: when the signal is aborted after persistence has started, the call
\* reports a cancellation error, not success, and the files already written
\* stay in storage.
C17_AbortDuringSaveIsCancelled ==
    (pc = "idle" /\ result.tool = ToolRename /\ saveCalled /\ aborted)
        => /\ result.isError
           /\ result.kind = ErrTimeout
           /\ WrittenInStorage

\* C18: once the save has been entered the abort signal is not looked at
\* again: a commit run that entered it reports success exactly when
\* project.save() completed, and then the files it reports are the files
\* written and no file of the project is left unsaved, whether or not the
\* signal was aborted during the save; a run whose save failed reports an error.
C18_WriteThenReport ==
    (pc = "idle" /\ result.tool = ToolRename /\ saveCalled)
        => IF errorKind = ErrPersistence
           THEN result.isError /\ result.files = {}
           ELSE /\ ~result.isError
                /\ result.files = persisted
                /\ getChangedFiles(proj) = {}
                /\ WrittenInStorage

\* a commit run reported its written files although the signal was aborted
\* while it was saving
C18_Witness ==
    /\ pc = "idle" /\ result.tool = ToolRename /\ saveCalled /\ aborted
    /\ ~result.isError
    /\ result.files = persisted /\ persisted # {}

-----------------------------------------------------------------------------
(* C19, C20: what the handlers return on failure *)

\* the message contains the word Error
ContainsError(text) == "Error:" \in Range(text)

\* C19: every handler returns a result for every outcome and never throws:
\* isError with a message for every failure of its operation, a failure to
\* load the project included, and no isError for a success.
C19_HandlersNeverThrow ==
    (pc = "idle" /\ runs > 0)
        => /\ ~result.thrown
           /\ result.isError = (errorKind # "")
           /\ result.isError => result.text # <<>>

\* C20: rename_symbol_by_tsmorph called for a file that does not exist, or
\* with a symbolName that is not the identifier at the position, fails before
\* any rename: nothing is modified or saved and the handler returns isError
\* with a text that contains Error.
C20_RenameSymbolValidationError ==
    (/\ pc = "idle" /\ result.tool = ToolRenameSymbol /\ tsconfigOk
     /\ \/ target.path \notin StartPaths
        \/ target.ident # target.symbolName)
        => /\ disk = startDisk
           /\ ~saveCalled
           /\ getChangedFiles(proj) = {}
           /\ ~result.thrown
           /\ result.isError
           /\ ContainsError(result.text)

-----------------------------------------------------------------------------
(* C21 *)

\* C21: the server exposes exactly the five documented tool names, so a call
\* of any tool by its documented name reaches that tool's handler.
C21_DocumentedNamesReachHandlers ==
    (pc = "idle" /\ runs > 0 /\ tool \in DocumentedTools)
        => /\ tool \in registeredTools
           /\ result.tool = tool
           /\ result.kind # ErrToolNotFound

-----------------------------------------------------------------------------
(* C22 - C24: move_symbol_to_file *)

\* the last call was a symbol move whose project was loaded
MoveCalled == pc = "idle" /\ result.tool = ToolMoveSymbol /\ tsconfigOk

\* the file the move was asked to take the declaration from, as it was when
\* the call started; 0 when there is none
StartOriginal ==
    IF \E i \in 1..Len(startDisk) : startDisk[i].path = target.path
    THEN CHOOSE i \in 1..Len(startDisk) : startDisk[i].path = target.path
    ELSE 0

\* the declaration the move was asked for, "" when there is none
StartDeclaration ==
    IF StartOriginal = 0 THEN ""
    ELSE IF \E s \in startDisk[StartOriginal].syms : declName(s) = target.symbolName
    THEN CHOOSE s \in startDisk[StartOriginal].syms : declName(s) = target.symbolName
    ELSE ""

\* C22: a symbol move asked for a declaration that is the default export
\* fails with UnsupportedDefaultExport and changes neither the original file
\* nor the target file, in the project or in storage.
C22_DefaultExportRejected ==
    (MoveCalled /\ StartDeclaration # "" /\ IsDefaultExport(StartDeclaration))
        => /\ result.isError
           /\ result.kind = ErrUnsupportedDefaultExport
           /\ getChangedFiles(proj) = {}
           /\ Len(proj) = Len(startDisk)
           /\ disk = startDisk

\* the default export h of /a.ts was asked to move, without dryRun
C22_Witness ==
    /\ MoveCalled /\ ~result.dryRun
    /\ StartDeclaration = "h"
    /\ result.kind = ErrUnsupportedDefaultExport

\* the move relocated the declaration in the project: it passed validation,
\* the original file is not the target file and every consumer was rewired
Relocated ==
    /\ MoveCalled /\ result.kind \in {"", ErrPersistence}
    /\ StartDeclaration # ""
    /\ target.path # target.dest

\* the dependencies of the moved declaration in the original file, as the
\* call found them
StartDependencies ==
    {s \in startDisk[StartOriginal].syms \ {StartDeclaration} :
        declName(s) \in Uses(declName(StartDeclaration))}

\* no other declaration of the original file references s
OnlyTargetUses(s) ==
    \A x \in startDisk[StartOriginal].syms \ {StartDeclaration, s} :
        declName(s) \notin Uses(declName(x))

TargetFile == getSourceFile(proj, target.dest)

\* the declarations the target file had when the call started
StartTargetSyms ==
    IF \E i \in 1..Len(startDisk) : startDisk[i].path = target.dest
    THEN startDisk[TargetFile].syms
    ELSE {}

\* the target file imports the name from the original file
TargetImports(n) ==
    \E k \in 1..Len(proj[TargetFile].edges) :
        /\ proj[TargetFile].edges[k].name = n
        /\ EdgeTarget(proj, [file |-> TargetFile, edge |-> k])
              = proj[StartOriginal].path

\* C23: each local dependency d of the moved declaration D is treated by
\* exactly one case of the rule: already exported, it stays and the target
\* imports it; else referenced only from within D, it moves with D; else it
\* stays, gets an export modifier and the target imports it. No other
\* declaration leaves the original file and no other gets an export.
C23_DependencyClassification ==
    Relocated =>
        LET O == proj[StartOriginal].syms
            T == proj[TargetFile].syms \ StartTargetSyms
        IN  /\ \A s \in StartDependencies :
                  IF IsExportedDecl(s)
                  THEN s \in O /\ s \notin T /\ TargetImports(declName(s))
                  ELSE IF OnlyTargetUses(s)
                  THEN s \in T /\ s \notin O /\ addExport(s) \notin O
                       /\ ~TargetImports(declName(s))
                  ELSE addExport(s) \in O /\ s \notin O /\ s \notin T
                       /\ addExport(s) \notin T /\ TargetImports(declName(s))
            /\ \A s \in startDisk[StartOriginal].syms
                      \ (StartDependencies \cup {StartDeclaration}) : s \in O
            /\ StartDeclaration \in T /\ StartDeclaration \notin O

\* f of /a.ts was moved: k, used by f only, went with it; u, used by g too,
\* stayed and was exported; v, exported already, stayed as it was
C23_Witness ==
    /\ Relocated /\ StartDeclaration = "f"
    /\ StartDependencies = {"k", "u", "v"}
    /\ {"f", "k"} \subseteq proj[TargetFile].syms
    /\ proj[StartOriginal].syms = {"g", "h", "export u", "v"}
    /\ TargetImports("u") /\ TargetImports("v")

\* the errors moveSymbolToFile fails with
MoveErrors ==
    {ErrFileNotFound, ErrSymbolNotFound, ErrUnsupportedDefaultExport, ErrRewire}

\* C24: when moveSymbolToFile fails, at validation or while relocating and
\* rewiring, the handler does not call project.save(), storage is as it was
\* when the call started, and the call reports failure.
C24_FailedMoveChangesNothing ==
    (MoveCalled /\ result.kind \in MoveErrors)
        => /\ result.isError /\ ~result.thrown
           /\ result.files = {}
           /\ ~saveCalled
           /\ persisted = {}
           /\ disk = startDisk

\* a commit move failed while rewiring a consumer, after the declaration had
\* left the original file in the project
C24_Witness ==
    /\ MoveCalled /\ ~result.dryRun
    /\ result.kind = ErrRewire
    /\ StartDeclaration \notin proj[StartOriginal].syms
    /\ getChangedFiles(proj) # {}

-----------------------------------------------------------------------------
(* C25 *)

\* C25: after a committed run of removePathAlias on a target, the next run
\* on the same target succeeds, changes no file in storage and returns an
\* empty list of changed files.
C25_RemoveAliasIdempotent ==
    [][(/\ pc = "idle" /\ result.tool = ToolRemoveAlias
        /\ ~result.isError /\ ~result.thrown /\ ~result.dryRun
        /\ runs' = runs + 1)
          => (/\ ~result'.isError
              /\ result'.files = {}
              /\ disk' = disk)]_vars

\* the second run on /e/n.ts or a directory above it, after the first run
\* had replaced "@/a" by "../a" and saved it
C25_Witness ==
    /\ pc = "idle" /\ result.tool = ToolRemoveAlias /\ runs = 2
    /\ ~result.isError /\ ~result.dryRun
    /\ Len(disk) = 3 /\ Len(disk[3].edges) = 2
    /\ disk[3].edges[2].spec = <<"..", "a">>
    /\ result.files = {}

-----------------------------------------------------------------------------
(* C26 *)

\* the steps from one stage of a rename call to the next
StageOrder ==
    { <<"idle", "plan">>, <<"idle", "return">>, <<"plan", "discover">>,
      <<"discover", "move">>, <<"move", "rewrite">>, <<"rewrite", "persist">>,
      <<"persist", "saving">>, <<"saving", "return">>, <<"return", "idle">>,
      <<"plan", "return">>, <<"discover", "return">>, <<"move", "return">>,
      <<"rewrite", "return">>, <<"persist", "return">> }

\* the project as the call loaded it
LoadedProject == initializeProject(startDisk)

\* what a step of each stage reads and leaves: the stages before it have run
\* to their end on the loaded project and no later stage has run
StageStep ==
    /\ pc' # pc => <<pc, pc'>> \in StageOrder
    /\ pc = "plan"
          => proj = LoadedProject /\ ops = <<>> /\ decls = <<>> /\ moves = 0
    /\ pc = "discover"
          => /\ proj = LoadedProject /\ decls = <<>> /\ moves = 0
             /\ proj' = proj /\ ops' = ops
             /\ pc' = "move"
                   => decls' = findAllDeclarationsToUpdate(LoadedProject, ops)
    /\ pc = "move"
          => /\ proj = LoadedProject /\ moves = 0
             /\ ops' = ops /\ decls' = decls
    /\ pc = "rewrite"
          => /\ ops' = ops /\ decls' = decls /\ moves' = moves
             /\ pc' # pc
                   => /\ proj' = updateModuleSpecifiers(proj, decls, ops, throws).proj
                      /\ \A i \in FileIds(proj) : proj'[i].path = proj[i].path
    /\ pc \in {"persist", "saving"}
          => /\ ops' = ops /\ decls' = decls /\ moves' = moves
             /\ pc' \in {"persist", "saving"} => proj' = proj
    /\ pc \in {"plan", "discover", "move", "rewrite", "persist"}
          => ~saveCalled /\ disk' = disk /\ disk = startDisk /\ persisted' = {}

\* C26: the stages of a rename call run in the order plan, discover, move,
\* rewrite, persist, each after the one before it has ended: discovery sees
\* the project before any move, and the rewrite stage works on the
\* operations that planning returned and the declarations that discovery
\* returned.
C26_StagesInOrder == [][StageStep]_vars

\* a commit run is saving after its four earlier stages, with declarations
\* found on the files' old paths and rewritten after the move
C26_Witness ==
    /\ pc = "saving" /\ tool = ToolRename
    /\ moves > 0 /\ counts.updated > 0
    /\ \E i \in 1..Len(decls) :
          /\ decls[i].resolvedPath \in StartPaths
          /\ decls[i].resolvedPath \notin FilePaths(proj)

-----------------------------------------------------------------------------
(* C27 *)

DirectStages == {"plan", "discover", "move", "rewrite", "persist"}

\* the direct call is about to start a stage and its signal is aborted
AbortedAtStageStart == tool = ToolDirect /\ pc \in DirectStages /\ aborted

\* C27: the signal is checked before each of the five stages: a stage that is
\* about to start with the signal already aborted does none of its work (no
\* operation planned, no declaration collected, no file moved, no specifier
\* rewritten, no save entered), and the call is rejected with the signal's
\* reason.
C27_AbortedStageDoesNothing ==
    [][/\ AbortedAtStageStart
          => /\ pc' = "return" /\ errorKind' = ErrAborted /\ signal'.stage = pc
             /\ UNCHANGED <<proj, ops, decls, moves, counts, changedFilePaths,
                            saveCalled, disk, persisted>>
       /\ (tool = ToolDirect /\ pc = "return" /\ errorKind = ErrAborted)
          => /\ result'.thrown /\ result'.text = <<"AbortError">>
             /\ disk' = startDisk]_vars

\* a commit call was stopped by the check before persist: the signal was
\* aborted while the last declaration was being rewritten, after the files
\* had been moved
C27_Witness ==
    /\ tool = ToolDirect /\ pc = "idle" /\ result.thrown
    /\ errorKind = ErrAborted /\ signal.stage = "persist" /\ signal.late = 1
    /\ moves > 0 /\ counts.updated > 0 /\ ~saveCalled /\ disk = startDisk

-----------------------------------------------------------------------------
(* C28 *)

\* C28: every loop of a stage checks the signal on each iteration, so no more
\* than one item is worked on between the moment the signal is aborted and
\* the moment the call stops.
C28_AtMostOneLateItem == tool = ToolDirect => signal.late <= 1

-----------------------------------------------------------------------------
(* C29 *)

\* C29: the declarations that discovery hands to the rewrite stage are
\* pairwise distinct (one entry per declaration of a file), and each one's
\* resolvedPath is the oldPath of an operation of the batch, so the rewrite
\* stage finds a new path for every one of them: the only declarations it
\* skips are those whose setModuleSpecifier throws.
C29_EdgesUniqueAndResolvable ==
    tool = ToolRename
    => /\ \A i, j \in 1..Len(decls) :
             (decls[i].file = decls[j].file /\ decls[i].edge = decls[j].edge)
             => i = j
       /\ \A i \in 1..Len(decls) :
             /\ \E k \in 1..Len(ops) : ops[k].oldPath = decls[i].resolvedPath
             /\ findNewPath(decls[i].resolvedPath, ops) # NoPath
       /\ Rewritten
          => /\ counts.skipped
                  = Cardinality({i \in 1..Len(decls) : IsFailing(decls[i], throws)})
             /\ counts.updated + counts.skipped = Len(decls)

\* the rewrite stage has run on two or more declarations of a batch in which
\* two operations are for the same file, so discovery found these
\* declarations twice
C29_Witness ==
    /\ Rewritten /\ pc = "idle" /\ ~result.isError
    /\ Len(decls) >= 2 /\ counts.updated >= 2
    /\ \E i, j \in 1..Len(ops) : i # j /\ ops[i].sourceFile = ops[j].sourceFile

-----------------------------------------------------------------------------
(* C30 *)

\* the failures of the stages before persistence
EarlyFailures == PlanErrors \cup {ErrMove, ErrAborted}

\* C30: when planning fails, a check finds the signal aborted or a file move
\* throws, the save is never entered and the call is rejected: storage keeps
\* every file at its original path with its original content, whatever was
\* already moved in memory.
C30_EarlyFailureLeavesStorage ==
    (tool = ToolDirect /\ errorKind \in EarlyFailures)
    => /\ ~saveCalled /\ pc # "saving"
       /\ disk = startDisk /\ persisted = {}
       /\ pc = "idle" => result.thrown /\ result.isError /\ result.files = {}

\* the second move of a batch threw after the first file had been moved in
\* memory, and the call was rejected
C30_Witness ==
    /\ tool = ToolDirect /\ pc = "idle" /\ result.thrown
    /\ errorKind = ErrMove /\ moves > 0
    /\ \E i \in FileIds(proj) : proj[i].path # startDisk[i].path
    /\ disk = startDisk

=============================================================================
